---- MODULE Spec2Model ----
(***************************************************************************)
(* Model of the X11 shared-clipboard backend                               *)
(* (src/src/VBox/GuestHost/SharedClipboard/x11-clipboard.cpp).             *)
(*                                                                         *)
(* The state is the backend context (struct _CLIPBACKEND), the toolkit's   *)
(* list of zero-delay timers through which other threads hand work to the  *)
(* event thread, and the selection conversions the toolkit has sent out    *)
(* with XtGetSelectionValue and not yet answered, and whether the toolkit   *)
(* holds the selection for the widget.  Every action is one                *)
(* handler that the event thread runs to completion (or one call made by   *)
(* another thread); `ev' and `calls' record which handler ran last, with   *)
(* which input, and which upstream / toolkit calls it made.                *)
(*                                                                         *)
(* Spec and FairSpec start from a context that ClipStartX11 has started.   *)
(* LifeSpec and LifeFairSpec start from ClipConstructX11 and add           *)
(* ClipStartX11, ClipStopX11 and the end of the event thread; RegSpec      *)
(* calls clipRegisterContext and clipUnregisterContext on the table of     *)
(* contexts; TargetsSpec applies clipGetTextFormatFromTargets to lists of  *)
(* targets; ConvSpec applies the transcoders to texts from X11 and from    *)
(* the host; LoopSpec takes the loop of clipEventThread call by call,      *)
(* with the X events that wait in the queue.                               *)
(***************************************************************************)
EXTENDS Integers, Sequences, FiniteSets, TLC

VARIABLES
    pCtx,       \* struct _CLIPBACKEND: the fields the handlers read and write
    thread,     \* clipEventThread: whether it runs its loop yet and, until it
                \* does, pCtx->fGrabClipboardOnStart (read only as it starts)
    timers,     \* work items queued with clipQueueToEventThread, oldest first
    xtSel,      \* XtGetSelectionValue requests that still await their callback
    ownsSel,    \* the toolkit holds CLIPBOARD for the widget (XtOwnSelection)
    hostText,   \* the last announcement the event thread ran offered Unicode
                \* text
    owed,       \* a foreign owner took the selection and no report has yet been
                \* made from a TARGETS request sent after that
    ev,         \* the handler that ran in the last step, and its input
    calls,      \* the upstream / toolkit calls made by the last step, in order
    g_contexts, \* the table mapping widgets to contexts
    xt,         \* what the toolkit and the system hold for the context: the
                \* exit flag of its application context and the live widgets,
                \* application contexts and pipe descriptors
    caller      \* where the thread that called ClipStopX11 is

lifeVars == <<g_contexts, xt, caller>>

vars == <<pCtx, thread, timers, xtSel, ownsSel, hostText, owed, ev, calls,
          g_contexts, xt, caller>>

-----------------------------------------------------------------------------
(* Bounds of the model. *)

MaxTimers == 1          \* work items that may wait in the timer list

-----------------------------------------------------------------------------
(* enum CLIPFORMAT *)

INVALID == 0
TARGETS == 1
TEXT == 2
CTEXT == 3
UTF8 == 4

VBOX_SHARED_CLIPBOARD_FMT_UNICODETEXT == 1

(* Bitwise and of two naturals. *)
RECURSIVE BitAnd(_, _)
BitAnd(a, b) ==
    IF a = 0 \/ b = 0 THEN 0
    ELSE (IF a % 2 = 1 /\ b % 2 = 1 THEN 1 ELSE 0) + 2 * BitAnd(a \div 2, b \div 2)

RT_SUCCESS(rc) == rc = "VINF_SUCCESS"

(* A pointer is NULL or points to a value. *)
NULL == <<>>
Ptr(v) == <<v>>
Deref(p) == p[1]

None == "None"                    \* the X11 null window
WidgetWindow == "VBoxClipboard"   \* XtWindow(pCtx->widget)
PeerWindow == "Peer"              \* a window of some other X11 client

(* The table mapping X11 names to data formats and VBox formats. *)
g_aFormats == <<
    [pcszAtom |-> "INVALID", enmFormat |-> INVALID, u32VBoxFormat |-> 0],
    [pcszAtom |-> "UTF8_STRING", enmFormat |-> UTF8,
     u32VBoxFormat |-> VBOX_SHARED_CLIPBOARD_FMT_UNICODETEXT],
    [pcszAtom |-> "text/plain;charset=UTF-8", enmFormat |-> UTF8,
     u32VBoxFormat |-> VBOX_SHARED_CLIPBOARD_FMT_UNICODETEXT],
    [pcszAtom |-> "text/plain;charset=utf-8", enmFormat |-> UTF8,
     u32VBoxFormat |-> VBOX_SHARED_CLIPBOARD_FMT_UNICODETEXT],
    [pcszAtom |-> "STRING", enmFormat |-> TEXT,
     u32VBoxFormat |-> VBOX_SHARED_CLIPBOARD_FMT_UNICODETEXT],
    [pcszAtom |-> "TEXT", enmFormat |-> TEXT,
     u32VBoxFormat |-> VBOX_SHARED_CLIPBOARD_FMT_UNICODETEXT],
    [pcszAtom |-> "text/plain", enmFormat |-> TEXT,
     u32VBoxFormat |-> VBOX_SHARED_CLIPBOARD_FMT_UNICODETEXT],
    [pcszAtom |-> "COMPOUND_TEXT", enmFormat |-> CTEXT,
     u32VBoxFormat |-> VBOX_SHARED_CLIPBOARD_FMT_UNICODETEXT] >>

NIL_CLIPX11FORMAT == 0
MAX_CLIP_X11_FORMATS == Len(g_aFormats)

(* Atoms the backend needs other than the formats it supports. *)
g_apszSupAtoms == << "PRIMARY", "CLIPBOARD", "TARGETS", "MULTIPLE", "TIMESTAMP" >>

(* String to atom: the index in one of the two tables plus an offset        *)
(* (0x1000 for the format names, 0x2000 for the others).                     *)
XtConvertAndStore(name) ==
    IF \E i \in 1..Len(g_apszSupAtoms) : g_apszSupAtoms[i] = name
    THEN (CHOOSE i \in 1..Len(g_apszSupAtoms) : g_apszSupAtoms[i] = name) - 1 + 8192
    ELSE IF \E i \in 1..Len(g_aFormats) : g_aFormats[i].pcszAtom = name
    THEN (CHOOSE i \in 1..Len(g_aFormats) : g_aFormats[i].pcszAtom = name) - 1 + 4096
    ELSE 0

(* The atoms of the names in the two tables, converted once: the same name   *)
(* always converts to the same atom.                                         *)
g_atoms ==
    [ name \in { g_apszSupAtoms[i] : i \in 1..Len(g_apszSupAtoms) }
                 \cup { g_aFormats[i].pcszAtom : i \in 1..Len(g_aFormats) }
        |-> XtConvertAndStore(name) ]

clipGetAtom(pszName) ==
    IF pszName \in DOMAIN g_atoms THEN g_atoms[pszName]
    ELSE XtConvertAndStore(pszName)

(* CLIPX11FORMAT values are C indices 0..7 into g_aFormats. *)
clipAtomForX11Format(format) == clipGetAtom(g_aFormats[format + 1].pcszAtom)

clipRealFormatForX11Format(format) == g_aFormats[format + 1].enmFormat

clipVBoxFormatForX11Format(format) == g_aFormats[format + 1].u32VBoxFormat

clipEnumX11Formats(u32VBoxFormats, lastFormat) ==
    LET hits == { i \in (lastFormat + 1)..(MAX_CLIP_X11_FORMATS - 1) :
                      BitAnd(u32VBoxFormats, clipVBoxFormatForX11Format(i)) # 0 }
    IN  IF hits = {} THEN NIL_CLIPX11FORMAT
        ELSE CHOOSE i \in hits : \A j \in hits : i <= j

clipFindX11FormatByAtom(atomFormat) ==
    LET hits == { i \in 0..(MAX_CLIP_X11_FORMATS - 1) :
                      clipAtomForX11Format(i) = atomFormat }
    IN  IF hits = {} THEN NIL_CLIPX11FORMAT
        ELSE CHOOSE i \in hits : \A j \in hits : i <= j

(* The loop of clipGetTextFormatFromTargets from position i on, with the     *)
(* best format and best target kind found so far.                            *)
RECURSIVE clipGetTextFormatLoop(_, _, _, _)
clipGetTextFormatLoop(pTargets, i, bestTextFormat, enmBestTextTarget) ==
    IF i > Len(pTargets) THEN bestTextFormat
    ELSE LET format == clipFindX11FormatByAtom(pTargets[i])
         IN  IF /\ format # NIL_CLIPX11FORMAT
                /\ clipVBoxFormatForX11Format(format)
                       = VBOX_SHARED_CLIPBOARD_FMT_UNICODETEXT
                /\ enmBestTextTarget < clipRealFormatForX11Format(format)
             THEN clipGetTextFormatLoop(pTargets, i + 1, format,
                                        clipRealFormatForX11Format(format))
             ELSE clipGetTextFormatLoop(pTargets, i + 1, bestTextFormat,
                                        enmBestTextTarget)

(* Mutant: a later target of the same kind replaces an earlier one. *)
RECURSIVE clipGetTextFormatLoop_LastWins(_, _, _, _)
clipGetTextFormatLoop_LastWins(pTargets, i, bestTextFormat, enmBestTextTarget) ==
    IF i > Len(pTargets) THEN bestTextFormat
    ELSE LET format == clipFindX11FormatByAtom(pTargets[i])
         IN  IF /\ format # NIL_CLIPX11FORMAT
                /\ clipVBoxFormatForX11Format(format)
                       = VBOX_SHARED_CLIPBOARD_FMT_UNICODETEXT
                /\ enmBestTextTarget <= clipRealFormatForX11Format(format)
             THEN clipGetTextFormatLoop_LastWins(pTargets, i + 1, format,
                                                 clipRealFormatForX11Format(format))
             ELSE clipGetTextFormatLoop_LastWins(pTargets, i + 1, bestTextFormat,
                                                 enmBestTextTarget)

clipGetTextFormatFromTargets_LastWins(pTargets) ==
    clipGetTextFormatLoop_LastWins(pTargets, 1, NIL_CLIPX11FORMAT, INVALID)

clipGetTextFormatFromTargets(pTargets) ==
    clipGetTextFormatLoop(pTargets, 1, NIL_CLIPX11FORMAT, INVALID)

-----------------------------------------------------------------------------
(* Inputs. *)

(* TARGETS lists a selection owner may reply with: an empty one, one with   *)
(* only an atom the table does not know, and lists of recognised text        *)
(* targets in several orders.                                                *)
TargetLists ==
    { <<>>,
      << 12288 >>,
      << clipGetAtom("STRING") >>,
      << clipGetAtom("COMPOUND_TEXT"), clipGetAtom("STRING") >>,
      << clipGetAtom("STRING"), clipGetAtom("UTF8_STRING"), clipGetAtom("TARGETS") >> }

(* Values a selection callback may be handed: no value, or some bytes. *)
Payloads == { <<>>, <<65>> }
ReplyValues == { NULL } \cup { Ptr(v) : v \in Payloads }
TargetValues == { NULL } \cup { Ptr(v) : v \in TargetLists }

(* Types a selection callback may be handed. *)
TargetsReplyTypes == { "XA_ATOM", "XT_CONVERT_FAIL" }
DataReplyTypes == { "XA_STRING", "XT_CONVERT_FAIL" }

(* Formats the host may ask for, and masks it may announce. *)
RequestFormats == { VBOX_SHARED_CLIPBOARD_FMT_UNICODETEXT, 65535 }
AnnounceMasks == { 0, VBOX_SHARED_CLIPBOARD_FMT_UNICODETEXT, 8 }
Cookies == { "reqA", "reqB" }     \* CLIPREADCBREQ pointers

(* What ClipRequestDataForX11 may hand back: the host's text (UTF-16 code    *)
(* units, here "h" and the terminator), an empty clipboard, or a failure.   *)
HostTexts == { <<104, 0>> }
HostReplies ==
    { [rc |-> "VINF_SUCCESS", pv |-> Ptr(t)] : t \in HostTexts }
        \cup { [rc |-> "VINF_SUCCESS", pv |-> NULL],
               [rc |-> "VERR_TIMEOUT", pv |-> NULL] }

(* Conversions an X11 peer may ask of the owner: every kind of target of     *)
(* CLIPBOARD, and a text target of PRIMARY and of a selection the backend    *)
(* does not serve.                                                           *)
RequestedTargets ==
    { clipGetAtom("TARGETS"), clipGetAtom("UTF8_STRING"),
      clipGetAtom("COMPOUND_TEXT"), clipGetAtom("TIMESTAMP") }
ConvertRequests ==
    { [selection |-> clipGetAtom("CLIPBOARD"), target |-> t] : t \in RequestedTargets }
        \cup { [selection |-> clipGetAtom("PRIMARY"),
                target |-> clipGetAtom("UTF8_STRING")],
               [selection |-> 12289, target |-> clipGetAtom("UTF8_STRING")] }

(* Outcomes of the library calls made while transcoding. *)
LibStatuses == { "VINF_SUCCESS", "VERR_NO_MEMORY" }

(* What the surroundings contribute to one conversion: the host's reply,     *)
(* whether the allocator hands back a block for no bytes, and the status of  *)
(* the transcoding libraries.  Only an empty reply can lead to a copy of no  *)
(* bytes, and only a reply with text (or a filled cache) is transcoded, so   *)
(* combinations that differ in a value no path looks at are left out.        *)
ConvertEnvs ==
    { e \in [reply : HostReplies, fDup0 : BOOLEAN, rcLib : LibStatuses] :
        /\ ~e.fDup0 => (e.reply.rc = "VINF_SUCCESS" /\ e.reply.pv = NULL)
        /\ e.rcLib # "VINF_SUCCESS" => e.reply.pv # NULL }

(* A request for TARGETS, for a target that is no text, or for a selection   *)
(* that is not served never gets as far as asking the surroundings.          *)
ConvertEnvsFor(q) ==
    IF /\ q.selection \in { clipGetAtom("CLIPBOARD"), clipGetAtom("PRIMARY") }
       /\ q.target # clipGetAtom("TARGETS")
       /\ clipRealFormatForX11Format(clipFindX11FormatByAtom(q.target)) # INVALID
    THEN ConvertEnvs
    ELSE { CHOOSE e \in ConvertEnvs : e.reply.pv # NULL /\ e.rcLib = "VINF_SUCCESS" }

(* XFixes selection notify events: subtype 0 (XFixesSetSelectionOwnerNotify) *)
(* names the new owner, which may be no window; the other subtypes (owner    *)
(* window destroyed, owner client closed) leave the selection without owner. *)
FixesEvents ==
    { [subtype |-> 0, owner |-> o] : o \in {None, WidgetWindow, PeerWindow} }
        \cup { [subtype |-> t, owner |-> None] : t \in 1..2 }

-----------------------------------------------------------------------------
(* The handlers.  Each takes and returns a record                            *)
(*   [ctx, sel, calls]                                                       *)
(* holding the context, the outstanding XtGetSelectionValue requests and the *)
(* calls made so far in this step.  A request is `fresh' until a foreign     *)
(* owner takes the selection.                                                *)

NoReq == [mFormat |-> 0, mTextFormat |-> 0, mReq |-> "none"]

XtGetSelectionValue(st, target, callback, closure) ==
    [st EXCEPT
        !.sel = Append(@, [target |-> target, callback |-> callback,
                           closure |-> closure, fresh |-> TRUE]),
        !.calls = Append(@, [fn |-> "XtGetSelectionValue", target |-> target])]

ClipReportX11Formats(st, u32Formats) ==
    [st EXCEPT !.calls = Append(@, [fn |-> "ClipReportX11Formats",
                                    u32Formats |-> u32Formats])]

ClipCompleteDataRequestFromX11(st, rc, pReq) ==
    [st EXCEPT !.calls = Append(@, [fn |-> "ClipCompleteDataRequestFromX11",
                                    rc |-> rc, pReq |-> pReq])]

(* Mutant: Unicode text is reported whatever format is stored. *)
clipReportFormatsToVBox_AlwaysText(st) ==
    ClipReportX11Formats(st, VBOX_SHARED_CLIPBOARD_FMT_UNICODETEXT)

clipReportFormatsToVBox(st) ==
    ClipReportX11Formats(st, clipVBoxFormatForX11Format(st.ctx.X11TextFormat))

clipResetX11Formats(st) == [st EXCEPT !.ctx.X11TextFormat = INVALID]

(* Mutant: the stored format is reported without being reset first. *)
clipReportEmptyX11CB_NoReset(st) == clipReportFormatsToVBox(st)

clipReportEmptyX11CB(st) == clipReportFormatsToVBox(clipResetX11Formats(st))

(* Mutant: the comparison with the stored format is the wrong way round. *)
clipGetFormatsFromTargets_Inverted(st, pTargets) ==
    LET bestTextFormat == clipGetTextFormatFromTargets(pTargets)
    IN  IF st.ctx.X11TextFormat = bestTextFormat
        THEN [st EXCEPT !.ctx.X11TextFormat = bestTextFormat]
        ELSE st

clipGetFormatsFromTargets(st, pTargets) ==
    LET bestTextFormat == clipGetTextFormatFromTargets(pTargets)
    IN  IF st.ctx.X11TextFormat # bestTextFormat
        THEN [st EXCEPT !.ctx.X11TextFormat = bestTextFormat]
        ELSE st

clipUpdateX11Targets(st, pTargets) ==
    clipReportFormatsToVBox(clipGetFormatsFromTargets(st, pTargets))

(* Mutant: the query is sent without looking at fBusy. *)
clipQueryX11CBFormats_NoBusyCheck(st) ==
    XtGetSelectionValue([st EXCEPT !.ctx.fBusy = TRUE],
                        clipGetAtom("TARGETS"), "clipConvertX11Targets", NoReq)

clipQueryX11CBFormats(st) ==
    IF st.ctx.fBusy
    THEN [st EXCEPT !.ctx.fUpdateNeeded = TRUE]
    ELSE XtGetSelectionValue([st EXCEPT !.ctx.fBusy = TRUE],
                             clipGetAtom("TARGETS"), "clipConvertX11Targets", NoReq)

(* Mutant: a pending update is not looked at when the reply arrives. *)
clipConvertX11Targets_NoRequery(st, atomType, pValue) ==
    LET s1 == [st EXCEPT !.ctx.fBusy = FALSE]
    IN  IF atomType = "XT_CONVERT_FAIL" \/ pValue = NULL
        THEN clipReportEmptyX11CB(s1)
        ELSE clipUpdateX11Targets(s1, Deref(pValue))

(* Mutant: a failed reply leaves fBusy set. *)
clipConvertX11Targets_FailKeepsBusy(st, atomType, pValue) ==
    LET s1 == [st EXCEPT !.ctx.fBusy = FALSE]
    IN  IF s1.ctx.fUpdateNeeded
        THEN clipQueryX11CBFormats([s1 EXCEPT !.ctx.fUpdateNeeded = FALSE])
        ELSE IF atomType = "XT_CONVERT_FAIL" \/ pValue = NULL
             THEN clipReportEmptyX11CB(st)
             ELSE clipUpdateX11Targets(s1, Deref(pValue))

clipConvertX11Targets(st, atomType, pValue) ==
    LET s1 == [st EXCEPT !.ctx.fBusy = FALSE]
    IN  IF s1.ctx.fUpdateNeeded
        THEN clipQueryX11CBFormats([s1 EXCEPT !.ctx.fUpdateNeeded = FALSE])
        ELSE IF atomType = "XT_CONVERT_FAIL" \/ pValue = NULL
             THEN clipReportEmptyX11CB(s1)
             ELSE clipUpdateX11Targets(s1, Deref(pValue))

(* Mutant: the two branches for a foreign event are swapped. *)
clipPeekEventAndDoXFixesHandling_Swapped(st, subtype, owner) ==
    IF owner # WidgetWindow
    THEN IF subtype = 0 /\ owner # None
         THEN clipReportEmptyX11CB(st)
         ELSE clipQueryX11CBFormats(st)
    ELSE st

clipPeekEventAndDoXFixesHandling(st, subtype, owner) ==
    IF owner # WidgetWindow
    THEN IF subtype = 0 /\ owner # None
         THEN clipQueryX11CBFormats(st)
         ELSE clipReportEmptyX11CB(st)
    ELSE st

-----------------------------------------------------------------------------
(* Transcoding of text that arrives from X11.  Text from X11 is a sequence   *)
(* of bytes (0..255), text for the host a sequence of 16-bit code units.     *)
(* A transcoder yields [rc, pvDest, cbDest, fOverrun]: the status, the       *)
(* buffer handed back, the size reported, and whether it stored a code unit  *)
(* outside the block it allocated.                                           *)

LINEFEED == 10
CARRIAGERETURN == 13

(* What the surroundings contribute to one transcoding: whether the          *)
(* allocator hands back memory, and whether plain char is signed in the      *)
(* build (implementation-defined).                                           *)
ConvEnvs == [fAlloc : BOOLEAN, fSignedChar : BOOLEAN]
NoFault == [fAlloc |-> TRUE, fSignedChar |-> TRUE]

ConvFail(rc, cbDest) ==
    [rc |-> rc, pvDest |-> NULL, cbDest |-> cbDest, fOverrun |-> FALSE]

strlen(psz) ==
    IF \E i \in 1..Len(psz) : psz[i] = 0
    THEN (CHOOSE i \in 1..Len(psz) :
              psz[i] = 0 /\ \A k \in 1..(i - 1) : psz[k] # 0) - 1
    ELSE Len(psz)

(* Utf-8: whether a byte continues a sequence, and the sequence that starts  *)
(* the bytes given, as its length in bytes (0 if it is not well formed) and  *)
(* its Utf-16 code units.                                                    *)
Utf8IsCont(b) == b >= 128 /\ b < 192
Utf8Bad == [len |-> 0, units |-> <<>>]
Utf8First(s) ==
    LET b == s[1]
    IN  IF b < 128 THEN [len |-> 1, units |-> <<b>>]
        ELSE IF b >= 192 /\ b < 224
        THEN IF Len(s) >= 2 /\ Utf8IsCont(s[2])
             THEN LET cp == (b - 192) * 64 + (s[2] - 128)
                  IN  IF cp >= 128 THEN [len |-> 2, units |-> <<cp>>] ELSE Utf8Bad
             ELSE Utf8Bad
        ELSE IF b >= 224 /\ b < 240
        THEN IF Len(s) >= 3 /\ Utf8IsCont(s[2]) /\ Utf8IsCont(s[3])
             THEN LET cp == (b - 224) * 4096 + (s[2] - 128) * 64 + (s[3] - 128)
                  IN  IF cp >= 2048 /\ ~(cp >= 55296 /\ cp <= 57343) /\ cp < 65534
                      THEN [len |-> 3, units |-> <<cp>>]
                      ELSE Utf8Bad
             ELSE Utf8Bad
        ELSE IF b >= 240 /\ b < 248
        THEN IF /\ Len(s) >= 4
                /\ Utf8IsCont(s[2]) /\ Utf8IsCont(s[3]) /\ Utf8IsCont(s[4])
             THEN LET cp == (b - 240) * 262144 + (s[2] - 128) * 4096
                                + (s[3] - 128) * 64 + (s[4] - 128)
                  IN  IF cp >= 65536 /\ cp <= 1114111
                      THEN [len |-> 4,
                            units |-> << 55296 + ((cp - 65536) \div 1024),
                                         56320 + ((cp - 65536) % 1024) >>]
                      ELSE Utf8Bad
             ELSE Utf8Bad
        ELSE Utf8Bad

(* The bytes up to the first NUL decoded as Utf-8. *)
RECURSIVE Utf8Decode(_)
Utf8Decode(s) ==
    IF s = <<>> \/ s[1] = 0 THEN [ok |-> TRUE, units |-> <<>>]
    ELSE LET f == Utf8First(s)
         IN  IF f.len = 0 THEN [ok |-> FALSE, units |-> <<>>]
             ELSE LET r == Utf8Decode(SubSeq(s, f.len + 1, Len(s)))
                  IN  [ok |-> r.ok, units |-> f.units \o r.units]

(* RTStrValidateEncodingEx(psz, cch, 0): the first cch bytes, or those up    *)
(* to a terminator before that, are well-formed Utf-8.                       *)
RTStrValidateEncodingEx(psz, cch) ==
    IF Utf8Decode(SubSeq(psz, 1, cch)).ok
    THEN "VINF_SUCCESS"
    ELSE "VERR_INVALID_UTF8_ENCODING"

(* RTStrToUtf16Ex(psz, cch, &pwc, 0, &cwc): the same bytes as a new,         *)
(* terminated Utf-16 string and its length without the terminator.           *)
RTStrToUtf16Ex(psz, cch, e) ==
    LET d == Utf8Decode(SubSeq(psz, 1, cch))
    IN  IF ~d.ok THEN [rc |-> "VERR_INVALID_UTF8_ENCODING", pwc |-> NULL, cwc |-> 0]
        ELSE IF ~e.fAlloc THEN [rc |-> "VERR_NO_UTF16_MEMORY", pwc |-> NULL, cwc |-> 0]
        ELSE [rc |-> "VINF_SUCCESS", pwc |-> Ptr(d.units \o <<0>>),
              cwc |-> Len(d.units)]

(* Unix text to Windows text: the first cwSrc code units up to a terminator  *)
(* among them, a carriage return put before every line feed, and a           *)
(* terminator.                                                               *)
RECURSIVE vboxClipboardUtf16LinToWinLoop(_, _)
vboxClipboardUtf16LinToWinLoop(pwszSrc, cwSrc) ==
    IF cwSrc = 0 \/ pwszSrc = <<>> \/ pwszSrc[1] = 0 THEN <<>>
    ELSE (IF pwszSrc[1] = LINEFEED
          THEN <<CARRIAGERETURN, LINEFEED>>
          ELSE <<pwszSrc[1]>>)
             \o vboxClipboardUtf16LinToWinLoop(Tail(pwszSrc), cwSrc - 1)
vboxClipboardUtf16LinToWin(pwszSrc, cwSrc) ==
    vboxClipboardUtf16LinToWinLoop(pwszSrc, cwSrc) \o <<0>>
vboxClipboardUtf16GetWinSize(pwszSrc, cwSrc) ==
    Len(vboxClipboardUtf16LinToWinLoop(pwszSrc, cwSrc)) + 1

clipUtf16ToWinTxt(pwcSrc, cwcSrc, e) ==
    LET cwcDest == vboxClipboardUtf16GetWinSize(pwcSrc, cwcSrc + 1)
    IN  IF ~e.fAlloc THEN ConvFail("VERR_NO_MEMORY", 0)
        ELSE [rc |-> "VINF_SUCCESS",
              pvDest |-> Ptr(vboxClipboardUtf16LinToWin(pwcSrc, cwcSrc + 1)),
              cbDest |-> cwcDest * 2, fOverrun |-> FALSE]

clipUtf8ToWinTxt(pcSrc, cbSrc, e) ==
    LET tmp == RTStrToUtf16Ex(pcSrc, cbSrc, e)
    IN  IF RT_SUCCESS(tmp.rc)
        THEN clipUtf16ToWinTxt(Deref(tmp.pwc), tmp.cwc, e)
        ELSE ConvFail(tmp.rc, 0)

(* XmbTextPropertyToTextList as the repository provides it: it accepts       *)
(* ASCII only and hands back one terminated string.                          *)
XmbTextPropertyToTextList(value, nitems, e) ==
    IF nitems = 0 THEN [xrc |-> "Success", list |-> NULL]
    ELSE IF \E i \in 1..nitems : value[i] >= 128
    THEN [xrc |-> "XConverterNotFound", list |-> NULL]
    ELSE IF ~e.fAlloc THEN [xrc |-> "XNoMemory", list |-> NULL]
    ELSE [xrc |-> "Success", list |-> Ptr(SubSeq(value, 1, nitems) \o <<0>>)]

(* RTStrCurrentCPToUtf8 of a terminated ASCII string: a copy of the string   *)
(* up to its terminator.                                                     *)
RTStrCurrentCPToUtf8(psz, e) ==
    IF e.fAlloc
    THEN [rc |-> "VINF_SUCCESS", psz |-> Ptr(SubSeq(psz, 1, strlen(psz)) \o <<0>>)]
    ELSE [rc |-> "VERR_NO_STR_MEMORY", psz |-> NULL]

(* Mutant: no special case for a value of no bytes. *)
clipCTextToWinTxt_NoEmptyCase(pcSrc, cbSrc, e) ==
    LET x == XmbTextPropertyToTextList(pcSrc, cbSrc, e)
    IN  IF x.xrc # "Success" \/ x.list = NULL
        THEN ConvFail("VERR_NOT_SUPPORTED", 0)
        ELSE clipUtf8ToWinTxt(Deref(x.list), strlen(Deref(x.list)), e)

clipCTextToWinTxt(pcSrc, cbSrc, e) ==
    IF cbSrc = 0
    THEN IF e.fAlloc
         THEN [rc |-> "VINF_SUCCESS", pvDest |-> Ptr(<<0>>), cbDest |-> 2,
               fOverrun |-> FALSE]
         ELSE ConvFail("VERR_NO_MEMORY", 0)
    ELSE LET x == XmbTextPropertyToTextList(pcSrc, cbSrc, e)
             rc1 == IF x.xrc = "Success" THEN "VINF_SUCCESS"
                    ELSE IF x.xrc = "XNoMemory" THEN "VERR_NO_MEMORY"
                    ELSE IF x.xrc \in {"XLocaleNotSupported", "XConverterNotFound"}
                    THEN "VERR_NOT_SUPPORTED"
                    ELSE "VERR_UNRESOLVED_ERROR"
         IN  IF ~RT_SUCCESS(rc1) THEN ConvFail(rc1, 0)
             ELSE LET u == RTStrCurrentCPToUtf8(Deref(x.list), e)
                  IN  IF ~RT_SUCCESS(u.rc) THEN ConvFail(u.rc, 0)
                      ELSE clipUtf8ToWinTxt(Deref(u.psz), strlen(Deref(u.psz)), e)

(* The code unit stored by pwszDest[j] = pcSrc[i]: the value of the char,    *)
(* which is negative for a byte from 128 on where char is signed.            *)
CharToUtf16(b, e) == IF e.fSignedChar /\ b >= 128 THEN 65280 + b ELSE b

(* Mutant: a line feed that follows a carriage return is copied as it is. *)
clipLatin1ToWinTxtCopy_KeepsCrLf(pcSrc, cbSrc, e) ==
    LET Exp(n) == IF pcSrc[n] # LINEFEED
                  THEN <<CharToUtf16(pcSrc[n], e)>>
                  ELSE IF n > 1 /\ pcSrc[n - 1] = CARRIAGERETURN
                  THEN <<LINEFEED>>
                  ELSE <<CARRIAGERETURN, LINEFEED>>
        Cat[n \in 0..cbSrc] ==
            IF n = 0 THEN <<>> ELSE Cat[n - 1] \o Exp(n)
    IN  Cat[cbSrc]

(* The first loop of clipLatin1ToWinTxt: the code units counted for the      *)
(* bytes up to the first NUL among the first cbSrc.                          *)
RECURSIVE clipLatin1ToWinTxtCount(_, _)
clipLatin1ToWinTxtCount(pcSrc, cbSrc) ==
    IF cbSrc = 0 \/ pcSrc[1] = 0 THEN 0
    ELSE (IF pcSrc[1] = LINEFEED THEN 2 ELSE 1)
             + clipLatin1ToWinTxtCount(Tail(pcSrc), cbSrc - 1)

(* Its second loop: the code units stored at pwszDest[0], [1], ... for all   *)
(* cbSrc bytes.                                                              *)
RECURSIVE clipLatin1ToWinTxtCopy(_, _, _)
clipLatin1ToWinTxtCopy(pcSrc, cbSrc, e) ==
    IF cbSrc = 0 THEN <<>>
    ELSE (IF pcSrc[1] # LINEFEED
          THEN <<CharToUtf16(pcSrc[1], e)>>
          ELSE <<CARRIAGERETURN, LINEFEED>>)
             \o clipLatin1ToWinTxtCopy(Tail(pcSrc), cbSrc - 1, e)

(* The size is reported before the block is asked for; the buffer handed     *)
(* back holds the code units stored inside the block and the terminator      *)
(* stored last.                                                              *)
clipLatin1ToWinTxt(pcSrc, cbSrc, e) ==
    LET cwcDest == clipLatin1ToWinTxtCount(pcSrc, cbSrc) + 1
        stored == clipLatin1ToWinTxtCopy(pcSrc, cbSrc, e)
        pwszDest == [j \in 1..cwcDest |->
                        IF j = cwcDest \/ j > Len(stored) THEN 0 ELSE stored[j]]
    IN  IF ~e.fAlloc THEN ConvFail("VERR_NO_MEMORY", cwcDest * 2)
        ELSE [rc |-> "VINF_SUCCESS", pvDest |-> Ptr(pwszDest),
              cbDest |-> cwcDest * 2, fOverrun |-> Len(stored) > cwcDest]

(* What clipConvertX11CB hands to ClipCompleteDataRequestFromX11. *)
clipConvertX11CBResult(pReq, atomType, pvSrc, e) ==
    IF pvSrc = NULL THEN ConvFail("VERR_NO_DATA", 0)
    ELSE IF atomType = "XT_CONVERT_FAIL" THEN ConvFail("VERR_TIMEOUT", 0)
    ELSE IF pReq.mFormat = VBOX_SHARED_CLIPBOARD_FMT_UNICODETEXT
    THEN LET cbSrc == Len(Deref(pvSrc))
             format == clipRealFormatForX11Format(pReq.mTextFormat)
         IN  IF format = CTEXT
             THEN clipCTextToWinTxt(Deref(pvSrc), cbSrc, e)
             ELSE IF format \in {UTF8, TEXT}
             THEN IF RT_SUCCESS(RTStrValidateEncodingEx(Deref(pvSrc), cbSrc))
                  THEN clipUtf8ToWinTxt(Deref(pvSrc), cbSrc, e)
                  ELSE clipLatin1ToWinTxt(Deref(pvSrc), cbSrc, e)
             ELSE ConvFail("VERR_INVALID_PARAMETER", 0)
    ELSE ConvFail("VERR_NOT_IMPLEMENTED", 0)

(* Mutant: a reply without a value is taken for a timeout. *)
clipConvertX11CBStatus_NullIsTimeout(pReq, atomType, pvSrc) ==
    IF pvSrc = NULL \/ atomType = "XT_CONVERT_FAIL" THEN "VERR_TIMEOUT"
    ELSE IF pReq.mFormat = VBOX_SHARED_CLIPBOARD_FMT_UNICODETEXT
         THEN "VINF_SUCCESS"
    ELSE "VERR_NOT_IMPLEMENTED"

(* The status clipConvertX11CB completes the request with, the allocator    *)
(* handing back memory.                                                      *)
clipConvertX11CBStatus(pReq, atomType, pvSrc) ==
    clipConvertX11CBResult(pReq, atomType, pvSrc, NoFault).rc

(* Mutant: the reply is decoded by the text format the context holds when    *)
(* the reply arrives, not by the one stored in the request.                  *)
clipConvertX11CB_CurrentFormat(st, pReq, atomType, pvSrc) ==
    LET s1 == [st EXCEPT !.ctx.fBusy = FALSE]
        s2 == IF s1.ctx.fUpdateNeeded THEN clipQueryX11CBFormats(s1) ELSE s1
    IN  ClipCompleteDataRequestFromX11(
            s2,
            clipConvertX11CBStatus(
                [pReq EXCEPT !.mTextFormat = st.ctx.X11TextFormat],
                atomType, pvSrc),
            pReq.mReq)

clipConvertX11CB(st, pReq, atomType, pvSrc) ==
    LET s1 == [st EXCEPT !.ctx.fBusy = FALSE]
        s2 == IF s1.ctx.fUpdateNeeded THEN clipQueryX11CBFormats(s1) ELSE s1
    IN  ClipCompleteDataRequestFromX11(
            s2, clipConvertX11CBStatus(pReq, atomType, pvSrc), pReq.mReq)

(* The same handler with the surroundings of the transcoding given. *)
clipConvertX11CBIn(st, pReq, atomType, pvSrc, e) ==
    LET s1 == [st EXCEPT !.ctx.fBusy = FALSE]
        s2 == IF s1.ctx.fUpdateNeeded THEN clipQueryX11CBFormats(s1) ELSE s1
    IN  ClipCompleteDataRequestFromX11(
            s2, clipConvertX11CBResult(pReq, atomType, pvSrc, e).rc, pReq.mReq)

(* Mutant: a request that finds the clipboard busy is dropped silently. *)
vboxClipboardReadX11Worker_DropsBusy(st, pReq) ==
    LET fBusy == st.ctx.fBusy
        s1 == [st EXCEPT !.ctx.fBusy = TRUE]
    IN  IF fBusy
        THEN s1
        ELSE IF pReq.mFormat = VBOX_SHARED_CLIPBOARD_FMT_UNICODETEXT
        THEN IF s1.ctx.X11TextFormat = INVALID
             THEN ClipCompleteDataRequestFromX11(s1, "VERR_NO_DATA", pReq.mReq)
             ELSE XtGetSelectionValue(
                      s1, clipAtomForX11Format(s1.ctx.X11TextFormat),
                      "clipConvertX11CB",
                      [pReq EXCEPT !.mTextFormat = s1.ctx.X11TextFormat])
        ELSE ClipCompleteDataRequestFromX11(s1, "VERR_NOT_IMPLEMENTED", pReq.mReq)

(* Mutant: the request is served whether or not the clipboard is busy. *)
vboxClipboardReadX11Worker_IgnoreBusy(st, pReq) ==
    LET s1 == [st EXCEPT !.ctx.fBusy = TRUE]
    IN  IF pReq.mFormat = VBOX_SHARED_CLIPBOARD_FMT_UNICODETEXT
        THEN IF s1.ctx.X11TextFormat = INVALID
             THEN ClipCompleteDataRequestFromX11(s1, "VERR_NO_DATA", pReq.mReq)
             ELSE XtGetSelectionValue(
                      s1, clipAtomForX11Format(s1.ctx.X11TextFormat),
                      "clipConvertX11CB",
                      [pReq EXCEPT !.mTextFormat = s1.ctx.X11TextFormat])
        ELSE ClipCompleteDataRequestFromX11(s1, "VERR_NOT_IMPLEMENTED", pReq.mReq)

vboxClipboardReadX11Worker(st, pReq) ==
    LET fBusy == st.ctx.fBusy
        s1 == [st EXCEPT !.ctx.fBusy = TRUE]
    IN  IF fBusy
        THEN ClipCompleteDataRequestFromX11(s1, "VERR_TRY_AGAIN", pReq.mReq)
        ELSE IF pReq.mFormat = VBOX_SHARED_CLIPBOARD_FMT_UNICODETEXT
        THEN IF s1.ctx.X11TextFormat = INVALID
             THEN ClipCompleteDataRequestFromX11(s1, "VERR_NO_DATA", pReq.mReq)
             ELSE XtGetSelectionValue(
                      s1, clipAtomForX11Format(s1.ctx.X11TextFormat),
                      "clipConvertX11CB",
                      [pReq EXCEPT !.mTextFormat = s1.ctx.X11TextFormat])
        ELSE ClipCompleteDataRequestFromX11(s1, "VERR_NOT_IMPLEMENTED", pReq.mReq)

clipInvalidateVBoxCBCache(st) ==
    IF st.ctx.pvUnicodeCache # NULL
    THEN [st EXCEPT !.ctx.pvUnicodeCache = NULL]
    ELSE st

(* Mutant: an empty mask gives the selection up instead of taking it. *)
clipGrabX11CB_ReleaseOnEmpty(st, u32Formats, fOwn) ==
    IF u32Formats = 0
    THEN [st EXCEPT !.ctx.vboxFormats = u32Formats, !.own = FALSE]
    ELSE IF fOwn
    THEN [st EXCEPT !.ctx.vboxFormats = u32Formats, !.own = TRUE]
    ELSE st

(* fOwn: whether XtOwnSelection of CLIPBOARD succeeded. *)
clipGrabX11CB(st, u32Formats, fOwn) ==
    IF fOwn
    THEN [st EXCEPT !.ctx.vboxFormats = u32Formats, !.own = TRUE]
    ELSE st

clipNewVBoxFormatsWorker(st, u32Formats, fOwn) ==
    clipResetX11Formats(
        clipGrabX11CB(clipInvalidateVBoxCBCache(st), u32Formats, fOwn))

-----------------------------------------------------------------------------
(* The owner side: X11 peers ask the widget to convert the selection.  The   *)
(* functions that return a status and fill in return parameters yield a      *)
(* record [st, rc, ...].                                                     *)

(* The upstream call for the host's data; `reply' is what it hands back. *)
ClipRequestDataForX11(st, u32Format, reply) ==
    [st EXCEPT !.calls = Append(@, [fn |-> "ClipRequestDataForX11",
                                    u32Format |-> u32Format,
                                    rc |-> reply.rc, pv |-> reply.pv])]

(* RTMemDup: a copy of the block; of a block of no bytes the allocator may   *)
(* hand back nothing (fDup0 tells).                                          *)
RTMemDup(pv, fDup0) == IF pv = NULL /\ ~fDup0 THEN NULL ELSE Ptr(IF pv = NULL THEN <<>> ELSE Deref(pv))

(* Mutant: the cache is never looked at, the host is asked every time. *)
clipReadVBoxClipboard_NoCache(st, u32Format, reply, fDup0) ==
    LET s1 == [ClipRequestDataForX11(st, u32Format, reply)
                   EXCEPT !.ctx.pvUnicodeCache = reply.pv]
        ppv == RTMemDup(s1.ctx.pvUnicodeCache, fDup0)
    IN  IF RT_SUCCESS(reply.rc)
        THEN [st |-> s1, rc |-> IF ppv = NULL THEN "VERR_NO_MEMORY" ELSE reply.rc,
              pv |-> ppv]
        ELSE [st |-> s1, rc |-> reply.rc, pv |-> NULL]

clipReadVBoxClipboard(st, u32Format, reply, fDup0) ==
    IF u32Format = VBOX_SHARED_CLIPBOARD_FMT_UNICODETEXT
    THEN LET fetch == st.ctx.pvUnicodeCache = NULL
             s1 == IF fetch
                   THEN [ClipRequestDataForX11(st, u32Format, reply)
                             EXCEPT !.ctx.pvUnicodeCache = reply.pv]
                   ELSE st
             rc == IF fetch THEN reply.rc ELSE "VINF_SUCCESS"
             ppv == RTMemDup(s1.ctx.pvUnicodeCache, fDup0)
         IN  IF RT_SUCCESS(rc)
             THEN [st |-> s1, rc |-> IF ppv = NULL THEN "VERR_NO_MEMORY" ELSE rc,
                   pv |-> ppv]
             ELSE [st |-> s1, rc |-> rc, pv |-> NULL]
    ELSE [st |-> ClipRequestDataForX11(st, u32Format, reply),
          rc |-> reply.rc, pv |-> reply.pv]

(* Windows text to Unix text: the code units up to the terminator, with      *)
(* CR LF turned into LF.                                                     *)
RECURSIVE vboxClipboardUtf16WinToLin(_)
vboxClipboardUtf16WinToLin(pwsz) ==
    IF pwsz = <<>> \/ Head(pwsz) = 0 THEN <<>>
    ELSE IF Head(pwsz) = 13 /\ Len(pwsz) > 1 /\ pwsz[2] = 10
         THEN <<10>> \o vboxClipboardUtf16WinToLin(Tail(Tail(pwsz)))
         ELSE <<Head(pwsz)>> \o vboxClipboardUtf16WinToLin(Tail(pwsz))

(* The text as terminated Utf-8 (code units below 128 are one byte each);    *)
(* rcLib is the status of the library calls on the way.                      *)
clipWinTxtToUtf8ForX11CB(pwszSrc, atomTarget, rcLib) ==
    IF RT_SUCCESS(rcLib)
    THEN [rc |-> "VINF_SUCCESS", type |-> atomTarget,
          value |-> vboxClipboardUtf16WinToLin(pwszSrc) \o <<0>>, format |-> 8]
    ELSE [rc |-> rcLib, type |-> 0, value |-> <<>>, format |-> 0]

(* The text as terminated compound text (plain for ASCII). *)
clipWinTxtToCTextForX11CB(pwszSrc, rcLib) ==
    IF RT_SUCCESS(rcLib)
    THEN [rc |-> "VINF_SUCCESS", type |-> clipGetAtom("COMPOUND_TEXT"),
          value |-> vboxClipboardUtf16WinToLin(pwszSrc) \o <<0>>, format |-> 8]
    ELSE [rc |-> rcLib, type |-> 0, value |-> <<>>, format |-> 0]

(* Mutant: the terminator is left in place. *)
clipTrimTrailingNul_Keeps(pText) == pText

clipTrimTrailingNul(pText) ==
    IF pText[Len(pText)] = 0 THEN SubSeq(pText, 1, Len(pText) - 1) ELSE pText

NoReturn == [type |-> 0, value |-> <<>>, format |-> 0]

RECURSIVE clipCreateX11TargetsLoop(_, _)
clipCreateX11TargetsLoop(u32VBoxFormats, lastFormat) ==
    LET format == clipEnumX11Formats(u32VBoxFormats, lastFormat)
    IN  IF format # NIL_CLIPX11FORMAT
        THEN << clipAtomForX11Format(format) >>
                 \o clipCreateX11TargetsLoop(u32VBoxFormats, format)
        ELSE <<>>

(* Mutant: MULTIPLE is left out of the list. *)
clipCreateX11Targets_NoMultiple(st) ==
    [st |-> st, rc |-> "VINF_SUCCESS",
     ret |-> [type |-> "XA_ATOM",
              value |-> clipCreateX11TargetsLoop(st.ctx.vboxFormats, NIL_CLIPX11FORMAT)
                          \o << clipGetAtom("TARGETS"), clipGetAtom("TIMESTAMP") >>,
              format |-> 32]]

clipCreateX11Targets(st) ==
    [st |-> st, rc |-> "VINF_SUCCESS",
     ret |-> [type |-> "XA_ATOM",
              value |-> clipCreateX11TargetsLoop(st.ctx.vboxFormats, NIL_CLIPX11FORMAT)
                          \o << clipGetAtom("TARGETS"), clipGetAtom("MULTIPLE"),
                                clipGetAtom("TIMESTAMP") >>,
              format |-> 32]]

(* Mutant: the host is asked whatever formats it announced. *)
clipConvertVBoxCBForX11_AnyFormats(st, atomTarget, reply, fDup0, rcLib) ==
    LET format == clipRealFormatForX11Format(clipFindX11FormatByAtom(atomTarget))
        rd == clipReadVBoxClipboard(st, VBOX_SHARED_CLIPBOARD_FMT_UNICODETEXT,
                                    reply, fDup0)
        conv == clipWinTxtToUtf8ForX11CB(Deref(rd.pv), atomTarget, rcLib)
    IN  IF format \in {UTF8, CTEXT, TEXT}
        THEN IF RT_SUCCESS(rd.rc) /\ Len(Deref(rd.pv)) # 0 /\ RT_SUCCESS(conv.rc)
             THEN [st |-> rd.st, rc |-> conv.rc,
                   ret |-> [conv EXCEPT !.value = clipTrimTrailingNul(@)]]
             ELSE [st |-> rd.st, rc |-> "VERR_NO_DATA", ret |-> NoReturn]
        ELSE [st |-> st, rc |-> "VERR_NOT_SUPPORTED", ret |-> NoReturn]

clipConvertVBoxCBForX11(st, atomTarget, reply, fDup0, rcLib) ==
    LET x11Format == clipFindX11FormatByAtom(atomTarget)
        format == clipRealFormatForX11Format(x11Format)
    IN  IF /\ format \in {UTF8, CTEXT, TEXT}
           /\ BitAnd(st.ctx.vboxFormats, VBOX_SHARED_CLIPBOARD_FMT_UNICODETEXT) # 0
        THEN LET rd == clipReadVBoxClipboard(
                           st, VBOX_SHARED_CLIPBOARD_FMT_UNICODETEXT, reply, fDup0)
                 cb == IF rd.pv = NULL THEN 0 ELSE 2 * Len(Deref(rd.pv))
                 rc1 == IF RT_SUCCESS(rd.rc) /\ cb = 0 THEN "VERR_NO_DATA" ELSE rd.rc
             IN  IF ~RT_SUCCESS(rc1)
                 THEN [st |-> rd.st, rc |-> rc1, ret |-> NoReturn]
                 ELSE LET conv == IF format \in {UTF8, TEXT}
                                  THEN clipWinTxtToUtf8ForX11CB(
                                           Deref(rd.pv), atomTarget, rcLib)
                                  ELSE clipWinTxtToCTextForX11CB(Deref(rd.pv), rcLib)
                      IN  IF RT_SUCCESS(conv.rc)
                          THEN [st |-> rd.st, rc |-> conv.rc,
                                ret |-> [type |-> conv.type,
                                         value |-> clipTrimTrailingNul(conv.value),
                                         format |-> conv.format]]
                          ELSE [st |-> rd.st, rc |-> conv.rc, ret |-> NoReturn]
        ELSE [st |-> st, rc |-> "VERR_NOT_SUPPORTED", ret |-> NoReturn]

clipIsSupportedSelectionType(selType) ==
    selType = clipGetAtom("CLIPBOARD") \/ selType = clipGetAtom("PRIMARY")

(* The XtOwnSelection callback; yields [st, ok, ret]. *)
clipXtConvertSelectionProc(st, atomSelection, atomTarget, reply, fDup0, rcLib) ==
    IF ~clipIsSupportedSelectionType(atomSelection)
    THEN [st |-> st, ok |-> FALSE, ret |-> NoReturn]
    ELSE LET r == IF atomTarget = clipGetAtom("TARGETS")
                  THEN clipCreateX11Targets(st)
                  ELSE clipConvertVBoxCBForX11(st, atomTarget, reply, fDup0, rcLib)
         IN  [st |-> r.st, ok |-> RT_SUCCESS(r.rc), ret |-> r.ret]

-----------------------------------------------------------------------------
(* The table of contexts (g_contexts) and the handles of one context.        *)

CLIP_MAX_CONTEXTS == 3  \* slots of g_contexts

(* Handles: the shell widget and application context the toolkit creates for *)
(* the context, the context itself, the ends of its wakeup pipe, and other   *)
(* contexts of the process with their widgets.                               *)
ShellWidget == Ptr(<<"widget", 0>>)
AppContext == Ptr(<<"appContext", 0>>)
SelfCtx == Ptr(<<"pCtx", 0>>)
PipeRead == 3
PipeWrite == 4
OtherCtx(i) == [pCtx |-> Ptr(<<"pCtx", i>>), widget |-> Ptr(<<"widget", i>>)]

FreeSlot == [widget |-> NULL, pCtx |-> NULL]

(* The loop of clipRegisterContext from slot i on. *)
RECURSIVE clipRegisterLoop(_, _, _, _, _)
clipRegisterLoop(reg, pCtxPtr, widget, i, found) ==
    IF i > Len(reg)
    THEN [reg |-> reg,
          rc |-> IF found THEN "VINF_SUCCESS" ELSE "VERR_OUT_OF_RESOURCES"]
    ELSE IF ~(reg[i].widget # widget /\ reg[i].pCtx # pCtxPtr)
    THEN [reg |-> reg, rc |-> "VERR_WRONG_ORDER"]
    ELSE IF reg[i].widget = NULL /\ ~found
    THEN IF reg[i].pCtx # NULL
         THEN [reg |-> reg, rc |-> "VERR_INTERNAL_ERROR"]
         ELSE clipRegisterLoop(
                  [reg EXCEPT ![i] = [widget |-> widget, pCtx |-> pCtxPtr]],
                  pCtxPtr, widget, i + 1, TRUE)
    ELSE clipRegisterLoop(reg, pCtxPtr, widget, i + 1, found)

(* widget is pCtx->widget; yields the table and the status. *)
clipRegisterContext(reg, pCtxPtr, widget) ==
    IF pCtxPtr = NULL \/ widget = NULL
    THEN [reg |-> reg, rc |-> "VERR_INVALID_PARAMETER"]
    ELSE clipRegisterLoop(reg, pCtxPtr, widget, 1, FALSE)

(* Mutant: nothing is taken out of the table. *)
clipUnregisterContext_Keeps(reg, pCtxPtr, widget) == reg

clipUnregisterContext(reg, pCtxPtr, widget) ==
    IF pCtxPtr = NULL \/ widget = NULL
    THEN reg
    ELSE [i \in 1..Len(reg) |->
              IF reg[i].widget = widget THEN FreeSlot ELSE reg[i]]

clipLookupContext(reg, widget) ==
    IF widget = NULL THEN NULL
    ELSE LET hits == { i \in 1..Len(reg) : reg[i].widget = widget }
         IN  IF hits = {} THEN NULL
             ELSE reg[CHOOSE i \in hits : \A j \in hits : i <= j].pCtx

(* ClipConstructX11: the zeroed context with fHaveX11 set. *)
ClipConstructX11(fHeadless) ==
    [fHaveX11 |-> ~fHeadless, appContext |-> NULL, widget |-> NULL,
     X11TextFormat |-> 0, vboxFormats |-> 0, pvUnicodeCache |-> NULL,
     wakeupPipeWrite |-> 0, wakeupPipeRead |-> 0,
     fBusy |-> FALSE, fUpdateNeeded |-> FALSE]

(* What the toolkit and the system hold for a context that was never         *)
(* started.                                                                  *)
NoXt == [exitFlag |-> FALSE, widgets |-> {}, apps |-> {}, fds |-> {}]

(* The lifecycle functions take and return a record                          *)
(*   [ctx, sel, own, calls, reg, xt, timers]                                 *)
(* which adds the context table, the toolkit's resources and the timer list  *)
(* to the record the handlers use.                                           *)

(* XtAppAddTimeOut with a delay of 0 and a write to the wakeup pipe.  A      *)
(* timer can only be added to an application context that exists.           *)
clipQueueToEventThread(st, proc, client_data) ==
    [st EXCEPT
        !.timers = IF st.ctx.appContext \in st.xt.apps
                   THEN Append(@, [proc |-> proc, data |-> client_data])
                   ELSE @,
        !.calls = @ \o << [fn |-> "XtAppAddTimeOut",
                           appContext |-> st.ctx.appContext, proc |-> proc],
                          [fn |-> "write", fd |-> st.ctx.wakeupPipeWrite] >> ]

(* Mutant: the pipe descriptors are left open. *)
clipUninit_LeavesPipes(st) ==
    LET s1 == IF st.ctx.widget # NULL
              THEN [st EXCEPT
                      !.reg = clipUnregisterContext(@, SelfCtx, st.ctx.widget),
                      !.xt.widgets = @ \ {st.ctx.widget},
                      !.sel = <<>>,
                      !.own = FALSE,
                      !.calls = Append(@, [fn |-> "XtDestroyWidget",
                                           widget |-> st.ctx.widget])]
              ELSE st
        s2 == [s1 EXCEPT !.ctx.widget = NULL]
        s3 == IF s2.ctx.appContext # NULL
              THEN [s2 EXCEPT
                      !.xt.apps = @ \ {s2.ctx.appContext},
                      !.xt.exitFlag = FALSE,
                      !.timers = <<>>,
                      !.calls = Append(@, [fn |-> "XtDestroyApplicationContext",
                                           appContext |-> s2.ctx.appContext])]
              ELSE s2
    IN  [s3 EXCEPT !.ctx.appContext = NULL]

(* Destroying the widget ends its selection requests and its ownership;      *)
(* destroying the application context takes its timers and exit flag along.  *)
clipUninit(st) ==
    LET s1 == IF st.ctx.widget # NULL
              THEN [st EXCEPT
                      !.reg = clipUnregisterContext(@, SelfCtx, st.ctx.widget),
                      !.xt.widgets = @ \ {st.ctx.widget},
                      !.sel = <<>>,
                      !.own = FALSE,
                      !.calls = Append(@, [fn |-> "XtDestroyWidget",
                                           widget |-> st.ctx.widget])]
              ELSE st
        s2 == [s1 EXCEPT !.ctx.widget = NULL]
        s3 == IF s2.ctx.appContext # NULL
              THEN [s2 EXCEPT
                      !.xt.apps = @ \ {s2.ctx.appContext},
                      !.xt.exitFlag = FALSE,
                      !.timers = <<>>,
                      !.calls = Append(@, [fn |-> "XtDestroyApplicationContext",
                                           appContext |-> s2.ctx.appContext])]
              ELSE s2
        s4 == [s3 EXCEPT !.ctx.appContext = NULL]
        s5 == IF s4.ctx.wakeupPipeRead # 0
              THEN [s4 EXCEPT
                      !.xt.fds = @ \ {s4.ctx.wakeupPipeRead},
                      !.calls = Append(@, [fn |-> "close",
                                           fd |-> s4.ctx.wakeupPipeRead])]
              ELSE s4
        s6 == IF s5.ctx.wakeupPipeWrite # 0
              THEN [s5 EXCEPT
                      !.xt.fds = @ \ {s5.ctx.wakeupPipeWrite},
                      !.calls = Append(@, [fn |-> "close",
                                           fd |-> s5.ctx.wakeupPipeWrite])]
              ELSE s5
    IN  [s6 EXCEPT !.ctx.wakeupPipeRead = 0, !.ctx.wakeupPipeWrite = 0]

clipStopEventThreadWorker(st) ==
    [st EXCEPT
        !.xt.exitFlag = IF st.ctx.appContext \in st.xt.apps THEN TRUE ELSE @,
        !.calls = Append(@, [fn |-> "XtAppSetExitFlag",
                             appContext |-> st.ctx.appContext])]

(* e tells which of the library steps of a start succeed. *)
clipLoadXFixes(e) == IF e.fXFixes THEN "VINF_SUCCESS" ELSE "VERR_NOT_SUPPORTED"

(* Yields [st, rc]. *)
clipInit(st, e) ==
    LET s0 == [st EXCEPT !.ctx.appContext = AppContext,
                         !.xt.apps = @ \cup {AppContext},
                         !.xt.exitFlag = FALSE]
        rc0 == IF e.fDisplay THEN "VINF_SUCCESS" ELSE "VERR_NOT_SUPPORTED"
        rc1 == IF RT_SUCCESS(rc0) THEN clipLoadXFixes(e) ELSE rc0
        r2 == IF RT_SUCCESS(rc1)
              THEN IF e.fWidget
                   THEN LET sw == [s0 EXCEPT !.ctx.widget = ShellWidget,
                                             !.xt.widgets = @ \cup {ShellWidget}]
                            rg == clipRegisterContext(sw.reg, SelfCtx, sw.ctx.widget)
                        IN  [st |-> [sw EXCEPT !.reg = rg.reg], rc |-> rg.rc]
                   ELSE [st |-> [s0 EXCEPT !.ctx.widget = NULL],
                         rc |-> "VERR_NO_MEMORY"]
              ELSE [st |-> s0, rc |-> rc1]
        r3 == IF e.fPipe
              THEN LET sp == [r2.st EXCEPT !.ctx.wakeupPipeRead = PipeRead,
                                           !.ctx.wakeupPipeWrite = PipeWrite,
                                           !.xt.fds = @ \cup {PipeRead, PipeWrite}]
                       rcA == IF ~e.fAddInput THEN "VERR_NO_MEMORY" ELSE r2.rc
                       rcB == IF RT_SUCCESS(rcA) /\ ~e.fFcntl
                              THEN "VERR_INVALID_PARAMETER" ELSE rcA
                   IN  [st |-> sp, rc |-> rcB]
              ELSE [st |-> r2.st, rc |-> "VERR_TOO_MANY_OPEN_FILES"]
    IN  IF ~RT_SUCCESS(r3.rc)
        THEN [st |-> clipUninit(r3.st), rc |-> r3.rc]
        ELSE r3

(* ClipStartX11 on a context with an X server; yields [st, rc]. *)
clipStartX11(st, e) ==
    LET r == clipInit(st, e)
        s1 == IF RT_SUCCESS(r.rc) THEN clipResetX11Formats(r.st) ELSE r.st
    IN  IF RT_SUCCESS(r.rc) /\ ~e.fThread
        THEN [st |-> clipUninit(s1), rc |-> "VERR_NO_MEMORY"]
        ELSE [st |-> s1, rc |-> r.rc]


-----------------------------------------------------------------------------
(* The state machine. *)

Cur == [ctx |-> pCtx, sel |-> xtSel, own |-> ownsSel, calls |-> <<>>]

Commit(st) ==
    /\ pCtx' = st.ctx
    /\ xtSel' = st.sel
    /\ ownsSel' = st.own
    /\ calls' = st.calls

RemoveAt(s, i) == SubSeq(s, 1, i - 1) \o SubSeq(s, i + 1, Len(s))

LifeCur ==
    [ctx |-> pCtx, sel |-> xtSel, own |-> ownsSel, calls |-> <<>>,
     reg |-> g_contexts, xt |-> xt, timers |-> timers]

LifeCommit(st) ==
    /\ Commit(st)
    /\ g_contexts' = st.reg
    /\ xt' = st.xt
    /\ timers' = st.timers

(* The thread of a context that has none, and of one whose thread has        *)
(* returned from clipEventThread.                                            *)
NoThread == [running |-> FALSE]
ThreadReturned == [running |-> FALSE, rcThread |-> "VINF_SUCCESS"]

(* Mutant: the loop does not look at the exit flag. *)
LoopRuns_IgnoresExitFlag == thread.running /\ pCtx.appContext \in xt.apps

(* The event thread is in its loop: it runs and the exit flag of its         *)
(* application context is not raised.                                        *)
LoopRuns == thread.running /\ pCtx.appContext \in xt.apps /\ ~xt.exitFlag

(* The fields of a context that ClipStartX11 has started with success, and   *)
(* what the toolkit and the system then hold for it.                         *)
StartedCtx ==
    [fHaveX11 |-> TRUE, appContext |-> AppContext, widget |-> ShellWidget,
     X11TextFormat |-> INVALID, vboxFormats |-> 0, pvUnicodeCache |-> NULL,
     wakeupPipeWrite |-> PipeWrite, wakeupPipeRead |-> PipeRead,
     fBusy |-> FALSE, fUpdateNeeded |-> FALSE]

StartedXt ==
    [exitFlag |-> FALSE, widgets |-> {ShellWidget}, apps |-> {AppContext},
     fds |-> {PipeRead, PipeWrite}]

(* ClipConstructX11 (not headless) followed by a successful ClipStartX11,    *)
(* with no other context in the process.                                     *)
Started(grab) ==
    /\ pCtx = StartedCtx
    /\ thread = [running |-> FALSE, fGrabClipboardOnStart |-> grab]
    /\ timers = <<>>
    /\ xtSel = <<>>
    /\ ownsSel = FALSE
    /\ hostText = FALSE
    /\ owed = FALSE
    /\ calls = <<>>
    /\ g_contexts = [i \in 1..CLIP_MAX_CONTEXTS |->
                        IF i = 1 THEN [widget |-> ShellWidget, pCtx |-> SelfCtx]
                        ELSE FreeSlot]
    /\ xt = StartedXt
    /\ caller = "idle"

Init ==
    /\ \E grab \in BOOLEAN : Started(grab)
    /\ ev = [type |-> "ClipStartX11"]

(* The event thread starts: it asks for the targets if told to grab. *)
clipEventThread ==
    /\ ~thread.running
    /\ "fGrabClipboardOnStart" \in DOMAIN thread
    /\ pCtx.appContext \in xt.apps
    /\ thread' = [running |-> TRUE]
    /\ Commit(IF thread.fGrabClipboardOnStart THEN clipQueryX11CBFormats(Cur) ELSE Cur)
    /\ ev' = [type |-> "clipEventThread"]
    /\ UNCHANGED <<timers, hostText, owed>>
    /\ UNCHANGED lifeVars

(* Another thread asks for the X11 clipboard contents.  Without an X server *)
(* the call returns VERR_NO_DATA at once.                                    *)
ClipRequestDataFromX11 ==
    /\ \E u32Format \in RequestFormats, pReq \in Cookies :
         IF ~pCtx.fHaveX11
         THEN /\ ev' = [type |-> "ClipRequestDataFromX11", pReq |-> pReq,
                        rc |-> "VERR_NO_DATA"]
              /\ calls' = <<>>
              /\ UNCHANGED timers
         ELSE /\ pCtx.appContext \in xt.apps
              /\ Len(timers) < MaxTimers
              /\ LET st == clipQueueToEventThread(
                               LifeCur, "vboxClipboardReadX11Worker",
                               [mFormat |-> u32Format, mTextFormat |-> 0,
                                mReq |-> pReq])
                 IN  timers' = st.timers /\ calls' = st.calls
              /\ ev' = [type |-> "ClipRequestDataFromX11", pReq |-> pReq,
                        rc |-> "VINF_SUCCESS"]
    /\ UNCHANGED <<pCtx, thread, xtSel, ownsSel, hostText, owed>>
    /\ UNCHANGED lifeVars

(* Another thread announces the formats the host has on offer.  Without an   *)
(* X server the call does nothing.                                           *)
ClipAnnounceFormatToX11 ==
    /\ \E u32Formats \in AnnounceMasks :
         IF ~pCtx.fHaveX11
         THEN /\ calls' = <<>>
              /\ UNCHANGED timers
         ELSE /\ pCtx.appContext \in xt.apps
              /\ Len(timers) < MaxTimers
              /\ LET st == clipQueueToEventThread(
                               LifeCur, "clipNewVBoxFormatsWorker", u32Formats)
                 IN  timers' = st.timers /\ calls' = st.calls
    /\ ev' = [type |-> "ClipAnnounceFormatToX11"]
    /\ UNCHANGED <<pCtx, thread, xtSel, ownsSel, hostText, owed>>
    /\ UNCHANGED lifeVars

(* The loop runs the oldest timer: a data request. *)
ReadX11Worker ==
    /\ LoopRuns
    /\ timers # <<>>
    /\ Head(timers).proc = "vboxClipboardReadX11Worker"
    /\ Commit(vboxClipboardReadX11Worker(Cur, Head(timers).data))
    /\ timers' = Tail(timers)
    /\ ev' = [type |-> "vboxClipboardReadX11Worker", pReq |-> Head(timers).data.mReq,
              mFormat |-> Head(timers).data.mFormat]
    /\ UNCHANGED <<thread, hostText, owed>>
    /\ UNCHANGED lifeVars

(* The loop runs the oldest timer: an announcement. *)
NewVBoxFormatsWorker ==
    /\ LoopRuns
    /\ timers # <<>>
    /\ Head(timers).proc = "clipNewVBoxFormatsWorker"
    /\ \E fOwn \in BOOLEAN :
         /\ Commit(clipNewVBoxFormatsWorker(Cur, Head(timers).data, fOwn))
         /\ ev' = [type |-> "clipNewVBoxFormatsWorker",
                   formats |-> Head(timers).data, fOwn |-> fOwn]
    /\ timers' = Tail(timers)
    /\ hostText' = (BitAnd(Head(timers).data,
                           VBOX_SHARED_CLIPBOARD_FMT_UNICODETEXT) # 0)
    /\ UNCHANGED <<thread, owed>>
    /\ UNCHANGED lifeVars

(* The loop peeks an XFixes selection notify event. *)
XFixesSelectionNotify ==
    /\ LoopRuns
    /\ \E e \in FixesEvents :
         LET subtype == e.subtype
             owner == e.owner
             foreign == subtype = 0 /\ owner = PeerWindow
             stale == [i \in DOMAIN xtSel |-> [xtSel[i] EXCEPT !.fresh = FALSE]]
         IN  /\ owed' = (owed \/ foreign)
             /\ Commit(clipPeekEventAndDoXFixesHandling(
                           [Cur EXCEPT !.sel = IF foreign THEN stale ELSE xtSel,
                                       !.own = ownsSel /\ owner = WidgetWindow],
                           subtype, owner))
             /\ ev' = [type |-> "XFixesSelectionNotify", subtype |-> subtype,
                       owner |-> owner]
    /\ UNCHANGED <<thread, timers, hostText>>
    /\ UNCHANGED lifeVars

Reported(cs) == \E k \in DOMAIN cs : cs[k].fn = "ClipReportX11Formats"

(* The toolkit delivers the answer to a TARGETS request. *)
TargetsReply ==
    /\ LoopRuns
    /\ \E i \in 1..Len(xtSel) :
         /\ xtSel[i].callback = "clipConvertX11Targets"
         /\ \E atomType \in TargetsReplyTypes, pValue \in TargetValues :
              /\ Commit(clipConvertX11Targets(
                            [Cur EXCEPT !.sel = RemoveAt(xtSel, i)], atomType, pValue))
              /\ ev' = [type |-> "clipConvertX11Targets", atomType |-> atomType,
                        pValue |-> pValue]
         /\ owed' = (owed /\ ~(xtSel[i].fresh /\ Reported(calls')))
    /\ UNCHANGED <<thread, timers, hostText>>
    /\ UNCHANGED lifeVars

(* The toolkit delivers the answer to a data request. *)
DataReply ==
    /\ LoopRuns
    /\ \E i \in 1..Len(xtSel) :
         /\ xtSel[i].callback = "clipConvertX11CB"
         /\ \E atomType \in DataReplyTypes, pvSrc \in ReplyValues :
              /\ Commit(clipConvertX11CB(
                            [Cur EXCEPT !.sel = RemoveAt(xtSel, i)],
                            xtSel[i].closure, atomType, pvSrc))
              /\ ev' = [type |-> "clipConvertX11CB", atomType |-> atomType,
                        pvSrc |-> pvSrc, pReq |-> xtSel[i].closure]
    /\ UNCHANGED <<thread, timers, hostText, owed>>
    /\ UNCHANGED lifeVars

(* The toolkit passes on a peer's request to convert the selection the       *)
(* widget owns.                                                              *)
ConvertSelection ==
    /\ LoopRuns
    /\ ownsSel
    /\ \E q \in ConvertRequests :
         \E e \in ConvertEnvsFor(q) :
           LET r == clipXtConvertSelectionProc(Cur, q.selection, q.target,
                                               e.reply, e.fDup0, e.rcLib)
           IN  /\ Commit(r.st)
               /\ ev' = [type |-> "clipXtConvertSelectionProc",
                         selection |-> q.selection, target |-> q.target,
                         ok |-> r.ok, ret |-> r.ret]
    /\ UNCHANGED <<thread, timers, hostText, owed>>
    /\ UNCHANGED lifeVars

(* Which of the library steps of a start succeed: all of them, all but one, *)
(* or neither the display nor the pipe.                                      *)
AllSucceed ==
    [fDisplay |-> TRUE, fXFixes |-> TRUE, fWidget |-> TRUE, fPipe |-> TRUE,
     fAddInput |-> TRUE, fFcntl |-> TRUE, fThread |-> TRUE]
StartEnvs ==
    { AllSucceed }
        \cup { [AllSucceed EXCEPT ![f] = FALSE] : f \in DOMAIN AllSucceed }
        \cup { [AllSucceed EXCEPT !.fDisplay = FALSE, !.fPipe = FALSE] }

(* ClipStartX11, called for a context that is not started. *)
ClipStartX11 ==
    /\ caller = "idle"
    /\ thread = NoThread
    /\ \E grab \in BOOLEAN :
         \E e \in (IF pCtx.fHaveX11 THEN StartEnvs ELSE {AllSucceed}) :
           IF ~pCtx.fHaveX11
           THEN /\ ev' = [type |-> "ClipStartX11", rc |-> "VINF_SUCCESS", env |-> e]
                /\ calls' = <<>>
                /\ UNCHANGED <<pCtx, thread, timers, xtSel, ownsSel, g_contexts, xt>>
           ELSE LET r == clipStartX11(LifeCur, e)
                IN  /\ LifeCommit(r.st)
                    /\ thread' = IF RT_SUCCESS(r.rc)
                                 THEN [running |-> FALSE,
                                       fGrabClipboardOnStart |-> grab]
                                 ELSE thread
                    /\ ev' = [type |-> "ClipStartX11", rc |-> r.rc, env |-> e]
    /\ UNCHANGED <<hostText, owed, caller>>

(* Mutant: ClipStopX11 does not look at fHaveX11. *)
ClipStopX11_NoHeadlessCheck ==
    /\ caller = "idle"
    /\ LifeCommit(clipQueueToEventThread(
                      LifeCur, "clipStopEventThreadWorker", SelfCtx))
    /\ caller' = "RTThreadWait"
    /\ ev' = [type |-> "ClipStopX11"]
    /\ UNCHANGED <<thread, hostText, owed>>

(* ClipStopX11 up to its wait for the event thread. *)
ClipStopX11 ==
    /\ caller = "idle"
    /\ IF ~pCtx.fHaveX11
       THEN /\ ev' = [type |-> "ClipStopX11", rc |-> "VINF_SUCCESS"]
            /\ calls' = <<>>
            /\ UNCHANGED <<pCtx, timers, xtSel, ownsSel, g_contexts, xt, caller>>
       ELSE /\ LifeCommit(clipQueueToEventThread(
                              LifeCur, "clipStopEventThreadWorker", SelfCtx))
            /\ caller' = "RTThreadWait"
            /\ ev' = [type |-> "ClipStopX11"]
    /\ UNCHANGED <<thread, hostText, owed>>

(* The statuses RTThreadWait may return for a handle that names no thread. *)
NoThreadStatuses == { "VERR_INVALID_HANDLE", "VINF_SUCCESS" }

(* The wait of ClipStopX11 ends and the call returns: the thread has         *)
(* returned, or the wait timed out 300 times while it has not, or the handle *)
(* names no thread.                                                          *)
StopReturns ==
    /\ caller = "RTThreadWait"
    /\ \E rc \in (IF thread = ThreadReturned THEN {"VINF_SUCCESS"}
                  ELSE IF thread = NoThread THEN NoThreadStatuses
                  ELSE {"VERR_TIMEOUT"}) :
         ev' = [type |-> "ClipStopX11 returns", rc |-> rc]
    /\ LifeCommit(clipUninit(LifeCur))
    /\ thread' = IF thread = ThreadReturned THEN NoThread ELSE thread
    /\ caller' = "idle"
    /\ UNCHANGED <<hostText, owed>>

(* The loop runs the oldest timer: the request to stop. *)
StopEventThreadWorker ==
    /\ LoopRuns
    /\ timers # <<>>
    /\ Head(timers).proc = "clipStopEventThreadWorker"
    /\ LifeCommit([clipStopEventThreadWorker(LifeCur) EXCEPT !.timers = Tail(@)])
    /\ ev' = [type |-> "clipStopEventThreadWorker"]
    /\ UNCHANGED <<thread, hostText, owed, caller>>

(* The loop finds the exit flag raised and clipEventThread returns. *)
EventThreadReturns ==
    /\ thread.running
    /\ pCtx.appContext \in xt.apps
    /\ xt.exitFlag
    /\ thread' = ThreadReturned
    /\ ev' = [type |-> "clipEventThread returns"]
    /\ calls' = <<>>
    /\ UNCHANGED <<pCtx, timers, xtSel, ownsSel, hostText, owed>>
    /\ UNCHANGED lifeVars

(* The thread finds its application context destroyed under it (ClipStopX11  *)
(* gave up waiting): what it does then is undefined; it may go on forever    *)
(* without effect or return.                                                 *)
EventThreadAfterDestroy ==
    /\ thread \notin {NoThread, ThreadReturned}
    /\ pCtx.appContext \notin xt.apps
    /\ thread' = ThreadReturned
    /\ ev' = [type |-> "clipEventThread returns"]
    /\ calls' = <<>>
    /\ UNCHANGED <<pCtx, timers, xtSel, ownsSel, hostText, owed>>
    /\ UNCHANGED lifeVars

Next ==
    \/ clipEventThread
    \/ ClipRequestDataFromX11
    \/ ClipAnnounceFormatToX11
    \/ ReadX11Worker
    \/ NewVBoxFormatsWorker
    \/ XFixesSelectionNotify
    \/ TargetsReply
    \/ DataReply
    \/ ConvertSelection

Spec == Init /\ [][Next]_vars

(* The event loop keeps running: it starts, runs every timer it is handed,   *)
(* and the toolkit calls back for every conversion that was sent out.        *)
FairSpec ==
    /\ Spec
    /\ WF_vars(clipEventThread)
    /\ WF_vars(ReadX11Worker)
    /\ WF_vars(NewVBoxFormatsWorker)
    /\ WF_vars(TargetsReply)
    /\ WF_vars(DataReply)

(* The life of one context from ClipConstructX11 on, in a process in which   *)
(* other contexts may hold slots of the table.                               *)
LifeInit ==
    /\ \E fHeadless \in BOOLEAN : pCtx = ClipConstructX11(fHeadless)
    /\ \E held \in SUBSET (1..CLIP_MAX_CONTEXTS) :
         g_contexts = [i \in 1..CLIP_MAX_CONTEXTS |->
                          IF i \in held THEN OtherCtx(i) ELSE FreeSlot]
    /\ thread = NoThread
    /\ timers = <<>>
    /\ xtSel = <<>>
    /\ ownsSel = FALSE
    /\ hostText = FALSE
    /\ owed = FALSE
    /\ calls = <<>>
    /\ xt = NoXt
    /\ caller = "idle"
    /\ ev = [type |-> "ClipConstructX11"]

LifeNext ==
    \/ ClipStartX11
    \/ ClipStopX11
    \/ StopReturns
    \/ clipEventThread
    \/ ClipRequestDataFromX11
    \/ ClipAnnounceFormatToX11
    \/ ReadX11Worker
    \/ NewVBoxFormatsWorker
    \/ TargetsReply
    \/ StopEventThreadWorker
    \/ EventThreadReturns
    \/ EventThreadAfterDestroy

LifeSpec == LifeInit /\ [][LifeNext]_vars

(* The event thread, once created, starts, runs every timer it is handed     *)
(* while it loops, and returns when it finds the exit flag raised.           *)
LifeFairSpec ==
    /\ LifeSpec
    /\ WF_vars(clipEventThread)
    /\ WF_vars(ReadX11Worker)
    /\ WF_vars(NewVBoxFormatsWorker)
    /\ WF_vars(StopEventThreadWorker)
    /\ WF_vars(EventThreadReturns)

-----------------------------------------------------------------------------
(* Reading the record of the last step. *)

CallsTo(cs, fn) == SelectSeq(cs, LAMBDA c : c.fn = fn)

Conversions(cs) == CallsTo(cs, "XtGetSelectionValue")
Reports(cs) == CallsTo(cs, "ClipReportX11Formats")
Completions(cs) == CallsTo(cs, "ClipCompleteDataRequestFromX11")

TargetsQuery == [fn |-> "XtGetSelectionValue", target |-> clipGetAtom("TARGETS")]
Report(mask) == [fn |-> "ClipReportX11Formats", u32Formats |-> mask]
Completion(rc, pReq) ==
    [fn |-> "ClipCompleteDataRequestFromX11", rc |-> rc, pReq |-> pReq]

-----------------------------------------------------------------------------
(* Properties. *)

(* C1: at most one selection transfer (TARGETS query or data fetch) awaits   *)
(* its reply in every reachable state, and no handler sends out more than    *)
(* one conversion.                                                           *)
C1_AtMostOneTransfer ==
    /\ Len(xtSel) <= 1
    /\ Len(Conversions(calls)) <= 1

(* C1 witness: a foreign owner took the selection while a transfer was       *)
(* outstanding, and the transfer is still the only one.                      *)
C1_Witness ==
    /\ ev.type = "XFixesSelectionNotify"
    /\ ev.owner = PeerWindow
    /\ Len(xtSel) = 1
    /\ pCtx.fUpdateNeeded

(* C2: between events fBusy is true if and only if a transfer awaits its     *)
(* reply.                                                                    *)
C2_BusyIffOutstanding == pCtx.fBusy <=> (xtSel # <<>>)

(* C3: a data request run while fBusy is set completes with VERR_TRY_AGAIN   *)
(* and its own cookie, sends out no conversion, leaves the timer list        *)
(* without it, and leaves the context and the outstanding transfer as they   *)
(* were.                                                                     *)
C3_BusyRequestTryAgain ==
    [][ (ev'.type = "vboxClipboardReadX11Worker" /\ pCtx.fBusy)
          => /\ calls' = << Completion("VERR_TRY_AGAIN", Head(timers).data.mReq) >>
             /\ timers' = Tail(timers)
             /\ pCtx' = pCtx
             /\ xtSel' = xtSel ]_vars

(* C3 witness: a request was fended off while a conversion was outstanding.  *)
C3_Witness ==
    /\ ev.type = "vboxClipboardReadX11Worker"
    /\ calls = << Completion("VERR_TRY_AGAIN", ev.pReq) >>
    /\ Len(xtSel) = 1

(* C4: a request for Unicode text that completes with VERR_NO_DATA because   *)
(* no text target is known leaves the context idle (fBusy false).            *)
C4_NoDataLeavesIdle ==
    ( /\ ev.type = "vboxClipboardReadX11Worker"
      /\ ev.mFormat = VBOX_SHARED_CLIPBOARD_FMT_UNICODETEXT
      /\ calls = << Completion("VERR_NO_DATA", ev.pReq) >> )
        => ~pCtx.fBusy

(* C5: if ownership changes to foreign owners stop at some point, every such *)
(* change is eventually followed by a report made from a TARGETS request     *)
(* that was sent after it.                                                   *)
C5_ChangeEventuallyReported ==
    (<>[] ~(ev.type = "XFixesSelectionNotify" /\ ev.owner = PeerWindow))
        => (owed ~> ~owed)

(* C6 as stated: every TARGETS reply that carries a list sets X11TextFormat  *)
(* to the best text target of the list and reports its mask.                 *)
C6_ListAlwaysProcessed ==
    ( /\ ev.type = "clipConvertX11Targets"
      /\ ev.atomType # "XT_CONVERT_FAIL"
      /\ ev.pValue # NULL )
        => /\ pCtx.X11TextFormat = clipGetTextFormatFromTargets(Deref(ev.pValue))
           /\ Reports(calls)
                = << Report(clipVBoxFormatForX11Format(
                         clipGetTextFormatFromTargets(Deref(ev.pValue)))) >>

(* C6 amended: a TARGETS reply that carries a list sets X11TextFormat to the *)
(* best text target of the list and reports its mask when fUpdateNeeded is   *)
(* not set; when it is set the list is dropped: X11TextFormat is unchanged,  *)
(* nothing is reported, fUpdateNeeded is cleared and one new TARGETS         *)
(* conversion is sent.                                                       *)
C6_ListProcessedUnlessUpdateNeeded ==
    [][ ( /\ ev'.type = "clipConvertX11Targets"
          /\ ev'.atomType # "XT_CONVERT_FAIL"
          /\ ev'.pValue # NULL )
          => LET best == clipGetTextFormatFromTargets(Deref(ev'.pValue))
             IN  IF pCtx.fUpdateNeeded
                 THEN /\ pCtx'.X11TextFormat = pCtx.X11TextFormat
                      /\ calls' = << TargetsQuery >>
                      /\ ~pCtx'.fUpdateNeeded
                 ELSE /\ pCtx'.X11TextFormat = best
                      /\ calls' = << Report(clipVBoxFormatForX11Format(best)) >> ]_vars

(* C6 witness: a list naming STRING and UTF8_STRING was processed: the Utf8  *)
(* target was stored and Unicode text reported.                              *)
C6_Witness ==
    /\ ev.type = "clipConvertX11Targets"
    /\ ev.atomType = "XA_ATOM"
    /\ ev.pValue # NULL
    /\ pCtx.X11TextFormat = clipFindX11FormatByAtom(clipGetAtom("UTF8_STRING"))
    /\ calls = << Report(VBOX_SHARED_CLIPBOARD_FMT_UNICODETEXT) >>

(* C7: a TARGETS or data reply that arrives with fUpdateNeeded set clears    *)
(* fUpdateNeeded and sends exactly one TARGETS conversion.                   *)
C7_UpdateNeededConsumed ==
    [][ (ev'.type \in {"clipConvertX11Targets", "clipConvertX11CB"}
            /\ pCtx.fUpdateNeeded)
          => /\ ~pCtx'.fUpdateNeeded
             /\ pCtx'.fBusy
             /\ Conversions(calls') = << TargetsQuery >> ]_vars

(* C8: fUpdateNeeded implies fBusy in every state between events.            *)
C8_UpdateNeededImpliesBusy == pCtx.fUpdateNeeded => pCtx.fBusy

(* C8 witness: an update is pending.                                         *)
C8_Witness == pCtx.fUpdateNeeded /\ ev.type = "XFixesSelectionNotify"

C10_ConvertFailIsTimeout ==
    (ev.type = "clipConvertX11CB" /\ ev.atomType = "XT_CONVERT_FAIL")
        => Completions(calls) = << Completion("VERR_TIMEOUT", ev.pReq.mReq) >>

(* C11: a data reply that carries no value and whose type is not             *)
(* XT_CONVERT_FAIL completes the request with VERR_NO_DATA and the cookie    *)
(* of that request, and with nothing else.                                   *)
C11_NoValueIsNoData ==
    ( /\ ev.type = "clipConvertX11CB"
      /\ ev.pvSrc = NULL
      /\ ev.atomType # "XT_CONVERT_FAIL" )
        => Completions(calls) = << Completion("VERR_NO_DATA", ev.pReq.mReq) >>

(* C11 witness: such a reply arrived for a request for Unicode text.         *)
C11_Witness ==
    /\ ev.type = "clipConvertX11CB"
    /\ ev.pvSrc = NULL
    /\ ev.atomType = "XA_STRING"
    /\ ev.pReq.mFormat = VBOX_SHARED_CLIPBOARD_FMT_UNICODETEXT
    /\ Completions(calls) = << Completion("VERR_NO_DATA", ev.pReq.mReq) >>

(* The data requests with cookie c that were accepted and not yet completed: *)
(* those waiting in the timer list and those whose conversion is out.        *)
Waiting(tm, xs, c) ==
    Len(SelectSeq(tm, LAMBDA t : t.proc = "vboxClipboardReadX11Worker"
                                     /\ t.data.mReq = c))
      + Len(SelectSeq(xs, LAMBDA r : r.callback = "clipConvertX11CB"
                                     /\ r.closure.mReq = c))

CompletedWith(cs, c) ==
    Len(SelectSeq(cs, LAMBDA k : k.fn = "ClipCompleteDataRequestFromX11"
                                     /\ k.pReq = c))

(* C12: every accepted data request leads to exactly one completion, which   *)
(* carries its cookie, and no completion is made for a cookie that was not   *)
(* requested: in every step the completions made are exactly the requests    *)
(* that stop waiting, cookie by cookie, and a request that was accepted is   *)
(* eventually completed with its cookie.                                     *)
C12_OneCompletionPerRequest ==
    /\ [][ \A c \in Cookies :
             Waiting(timers', xtSel', c) + CompletedWith(calls', c)
               = Waiting(timers, xtSel, c)
                   + (IF ev'.type = "ClipRequestDataFromX11" /\ ev'.pReq = c
                      THEN 1 ELSE 0) ]_vars
    /\ \A c \in Cookies :
         (ev.type = "ClipRequestDataFromX11" /\ ev.pReq = c)
             ~> (CompletedWith(calls, c) > 0)

(* C12 witness: a request whose conversion was sent out was completed with   *)
(* success and its cookie by the data reply.                                 *)
C12_Witness ==
    /\ ev.type = "clipConvertX11CB"
    /\ calls = << Completion("VINF_SUCCESS", "reqB") >>
    /\ ev.pReq.mReq = "reqB"

(* C13: a data request for a format other than Unicode text that is run      *)
(* while no transfer is in flight completes with VERR_NOT_IMPLEMENTED and    *)
(* its cookie, and sends out no conversion.                                  *)
C13_OtherFormatNotImplemented ==
    [][ ( /\ ev'.type = "vboxClipboardReadX11Worker"
          /\ ev'.mFormat # VBOX_SHARED_CLIPBOARD_FMT_UNICODETEXT
          /\ xtSel = <<>> )
          => /\ calls' = << Completion("VERR_NOT_IMPLEMENTED", ev'.pReq) >>
             /\ xtSel' = <<>> ]_vars

(* C14: X11TextFormat is INVALID in every state in which the widget owns the *)
(* selection.                                                                *)
C14_OwnerHasNoX11Format == ownsSel => pCtx.X11TextFormat = INVALID

(* C15 as stated: after an announcement of the empty mask has been run the   *)
(* widget does not own the selection.                                        *)
C15_EmptyMaskReleases ==
    (ev.type = "clipNewVBoxFormatsWorker" /\ ev.formats = 0) => ~ownsSel

(* C15 amended: an announcement of the empty mask takes the selection like   *)
(* any other: after it has been run the widget owns the selection if the     *)
(* grab succeeded or if it owned it before, vboxFormats is 0 if the grab     *)
(* succeeded, and no later step other than a selection event naming another  *)
(* owner (or none) ends the ownership.                                       *)
C15_EmptyMaskGrabs ==
    [][ /\ (ev'.type = "clipNewVBoxFormatsWorker" /\ ev'.formats = 0)
          => /\ ownsSel' = (ownsSel \/ ev'.fOwn)
             /\ ev'.fOwn => pCtx'.vboxFormats = 0
        /\ (ownsSel /\ ~ownsSel')
          => (ev'.type = "XFixesSelectionNotify" /\ ev'.owner # WidgetWindow) ]_vars

(* C15 witness: the empty mask was announced, the grab succeeded and the     *)
(* widget owns the selection.                                                *)
C15_Witness ==
    /\ ev.type = "clipNewVBoxFormatsWorker"
    /\ ev.formats = 0
    /\ ev.fOwn
    /\ ownsSel
    /\ pCtx.vboxFormats = 0

HostCalls(cs) == CallsTo(cs, "ClipRequestDataForX11")

(* C16: while the last announcement run lacks the Unicode text bit, no       *)
(* conversion request of a peer makes the backend call ClipRequestDataForX11.*)
C16_NoTextNoHostCall ==
    (ev.type = "clipXtConvertSelectionProc" /\ ~hostText) => HostCalls(calls) = <<>>

(* C17: a run of the announcement worker empties the cache, sets vboxFormats *)
(* to the announced mask and X11TextFormat to INVALID whether or not the     *)
(* grab succeeds, and leaves fBusy and fUpdateNeeded alone.                  *)
C17_AnnouncementEffect ==
    [][ ev'.type = "clipNewVBoxFormatsWorker"
          => /\ pCtx'.pvUnicodeCache = NULL
             /\ pCtx'.vboxFormats = ev'.formats
             /\ pCtx'.X11TextFormat = INVALID
             /\ pCtx'.fBusy = pCtx.fBusy
             /\ pCtx'.fUpdateNeeded = pCtx.fUpdateNeeded ]_vars

TextTarget(atomTarget) ==
    clipRealFormatForX11Format(clipFindX11FormatByAtom(atomTarget)) \in {UTF8, CTEXT, TEXT}

ReturnedData(c) == RT_SUCCESS(c.rc) /\ c.pv # NULL

(* C18: between two announcements at most one call of ClipRequestDataForX11  *)
(* returns data.  Step by step: a conversion asks the host at most once and  *)
(* only while the cache is empty; data the host returns is kept in the       *)
(* cache; a conversion of a text target that finds the cache empty (with     *)
(* Unicode text on offer) asks the host; only the announcement worker        *)
(* empties the cache, and it always does.                                    *)
C18_OneFetchPerAnnouncement ==
    [][ /\ ev'.type = "clipXtConvertSelectionProc"
          => /\ Len(HostCalls(calls')) <= 1
             /\ pCtx.pvUnicodeCache # NULL
                  => (HostCalls(calls') = <<>>
                        /\ pCtx'.pvUnicodeCache = pCtx.pvUnicodeCache)
             /\ \A k \in DOMAIN HostCalls(calls') :
                  ReturnedData(HostCalls(calls')[k])
                    => pCtx'.pvUnicodeCache = HostCalls(calls')[k].pv
             /\ ( /\ pCtx.pvUnicodeCache = NULL
                  /\ clipIsSupportedSelectionType(ev'.selection)
                  /\ TextTarget(ev'.target)
                  /\ BitAnd(pCtx.vboxFormats, VBOX_SHARED_CLIPBOARD_FMT_UNICODETEXT) # 0 )
                  => Len(HostCalls(calls')) = 1
        /\ ev'.type = "clipNewVBoxFormatsWorker" => pCtx'.pvUnicodeCache = NULL
        /\ ev'.type \notin {"clipXtConvertSelectionProc", "clipNewVBoxFormatsWorker"}
             => pCtx'.pvUnicodeCache = pCtx.pvUnicodeCache ]_vars

(* C18 witness: a text conversion was served from the cache, without a call  *)
(* to the host.                                                              *)
C18_Witness ==
    /\ ev.type = "clipXtConvertSelectionProc"
    /\ ev.ok
    /\ TextTarget(ev.target)
    /\ HostCalls(calls) = <<>>
    /\ pCtx.pvUnicodeCache # NULL

MatchingFormats(u32VBoxFormats) ==
    SelectSeq([i \in 1..MAX_CLIP_X11_FORMATS |-> i - 1],
              LAMBDA f : BitAnd(u32VBoxFormats, g_aFormats[f + 1].u32VBoxFormat) # 0)

(* C20: the reply to a TARGETS conversion of a served selection succeeds     *)
(* with type ATOM and format 32 and lists the atoms of the table entries     *)
(* whose VBox format meets vboxFormats, each once and in table order, then   *)
(* TARGETS, MULTIPLE and TIMESTAMP; it is never longer than the table size   *)
(* plus 3.                                                                   *)
C20_TargetsReply ==
    ( /\ ev.type = "clipXtConvertSelectionProc"
      /\ ev.target = clipGetAtom("TARGETS")
      /\ clipIsSupportedSelectionType(ev.selection) )
        => /\ ev.ok
           /\ ev.ret.type = "XA_ATOM"
           /\ ev.ret.format = 32
           /\ ev.ret.value
                = [k \in 1..Len(MatchingFormats(pCtx.vboxFormats)) |->
                       XtConvertAndStore(
                           g_aFormats[MatchingFormats(pCtx.vboxFormats)[k] + 1].pcszAtom)]
                    \o << XtConvertAndStore("TARGETS"), XtConvertAndStore("MULTIPLE"),
                          XtConvertAndStore("TIMESTAMP") >>
           /\ Len(ev.ret.value) <= MAX_CLIP_X11_FORMATS + 3

(* C20 witness: with Unicode text on offer the reply lists the seven text    *)
(* targets and the three fixed ones.                                         *)
C20_Witness ==
    /\ ev.type = "clipXtConvertSelectionProc"
    /\ ev.target = clipGetAtom("TARGETS")
    /\ ev.ok
    /\ pCtx.vboxFormats = VBOX_SHARED_CLIPBOARD_FMT_UNICODETEXT
    /\ Len(ev.ret.value) = 10

(* The list names at least one atom of a table entry for Unicode text. *)
HasTextTarget(pTargets) ==
    \E i \in DOMAIN pTargets :
        \E f \in 1..Len(g_aFormats) :
            /\ XtConvertAndStore(g_aFormats[f].pcszAtom) = pTargets[i]
            /\ g_aFormats[f].u32VBoxFormat = VBOX_SHARED_CLIPBOARD_FMT_UNICODETEXT

(* C22: every ClipReportX11Formats call carries the VBox format of the       *)
(* X11TextFormat stored at that moment; the mask is the Unicode text bit or  *)
(* 0 and nothing else; a report made for a TARGETS reply with a list carries *)
(* the Unicode text bit if the list names a recognised text target and 0 if  *)
(* it names none.                                                            *)
C22_ReportCarriesStoredMask ==
    \A k \in DOMAIN Reports(calls) :
        LET mask == Reports(calls)[k].u32Formats
        IN  /\ mask = g_aFormats[pCtx.X11TextFormat + 1].u32VBoxFormat
            /\ mask \in {0, VBOX_SHARED_CLIPBOARD_FMT_UNICODETEXT}
            /\ ( /\ ev.type = "clipConvertX11Targets"
                 /\ ev.atomType # "XT_CONVERT_FAIL"
                 /\ ev.pValue # NULL )
                 => mask = (IF HasTextTarget(Deref(ev.pValue))
                            THEN VBOX_SHARED_CLIPBOARD_FMT_UNICODETEXT ELSE 0)

(* C22 witness: a TARGETS reply listing only an atom the table does not know *)
(* was processed while a text target was stored, and mask 0 was reported.    *)
C22_Witness ==
    /\ ev.type = "clipConvertX11Targets"
    /\ ev.atomType = "XA_ATOM"
    /\ ev.pValue = Ptr(<< 12288 >>)
    /\ calls = << Report(0) >>
    /\ pCtx.X11TextFormat = INVALID

(* C23 as stated: every TARGETS reply that is a timeout or carries no value  *)
(* sets X11TextFormat to INVALID, reports mask 0 and leaves the context idle *)
(* (fBusy false, no transfer outstanding).                                   *)
C23_FailedTargetsResets ==
    ( /\ ev.type = "clipConvertX11Targets"
      /\ (ev.atomType = "XT_CONVERT_FAIL" \/ ev.pValue = NULL) )
        => /\ pCtx.X11TextFormat = INVALID
           /\ calls = << Report(0) >>
           /\ ~pCtx.fBusy
           /\ xtSel = <<>>

(* C23 amended: such a reply sets X11TextFormat to INVALID, reports mask 0,  *)
(* sends no conversion and clears fBusy when fUpdateNeeded is not set; when  *)
(* it is set, X11TextFormat is unchanged, nothing is reported, fUpdateNeeded *)
(* is cleared, one new TARGETS conversion is sent and fBusy stays set.       *)
C23_FailedTargetsResetsUnlessUpdateNeeded ==
    [][ ( /\ ev'.type = "clipConvertX11Targets"
          /\ (ev'.atomType = "XT_CONVERT_FAIL" \/ ev'.pValue = NULL) )
          => IF pCtx.fUpdateNeeded
             THEN /\ pCtx' = [pCtx EXCEPT !.fUpdateNeeded = FALSE]
                  /\ pCtx'.fBusy
                  /\ calls' = << TargetsQuery >>
             ELSE /\ pCtx' = [pCtx EXCEPT !.X11TextFormat = INVALID,
                                          !.fBusy = FALSE]
                  /\ calls' = << Report(0) >>
                  /\ Len(xtSel') = Len(xtSel) - 1 ]_vars

(* C23 witness: a timeout arrived with a text target stored and no update    *)
(* pending; the format was reset, mask 0 reported and the context is idle.   *)
C23_Witness ==
    /\ ev.type = "clipConvertX11Targets"
    /\ ev.atomType = "XT_CONVERT_FAIL"
    /\ calls = << Report(0) >>
    /\ pCtx.X11TextFormat = INVALID
    /\ ~pCtx.fBusy
    /\ xtSel = <<>>

(* C24: a selection event that leaves the selection without owner, received  *)
(* while fBusy is false, sets X11TextFormat to INVALID and reports mask 0;   *)
(* it sends no conversion, leaves fBusy false and changes nothing else.      *)
C24_NoOwnerInIdleReportsEmpty ==
    [][ ( /\ ev'.type = "XFixesSelectionNotify"
          /\ ev'.owner = None
          /\ ~pCtx.fBusy )
          => /\ pCtx' = [pCtx EXCEPT !.X11TextFormat = INVALID]
             /\ calls' = << Report(0) >>
             /\ xtSel' = xtSel
             /\ ~pCtx'.fBusy ]_vars

(* C24 witness: the owner went away while a text target was stored and the   *)
(* context was idle.                                                         *)
C24_Witness ==
    /\ ev.type = "XFixesSelectionNotify"
    /\ ev.owner = None
    /\ calls = << Report(0) >>
    /\ ~pCtx.fBusy
    /\ pCtx.X11TextFormat = INVALID
    /\ pCtx.vboxFormats = 0

-----------------------------------------------------------------------------
(* Register and unregister on their own: calls for the context, for two      *)
(* other contexts and for one that has no widget, in any order.              *)

RegCallers ==
    { [pCtx |-> SelfCtx, widget |-> ShellWidget], OtherCtx(1), OtherCtx(2),
      [pCtx |-> Ptr(<<"pCtx", 3>>), widget |-> NULL] }

RegInit ==
    /\ Started(FALSE)
    /\ ev = [type |-> "none"]

RegisterCall ==
    \E c \in RegCallers :
        LET r == clipRegisterContext(g_contexts, c.pCtx, c.widget)
        IN  /\ g_contexts' = r.reg
            /\ ev' = [type |-> "clipRegisterContext", pCtx |-> c.pCtx,
                      widget |-> c.widget, rc |-> r.rc]
            /\ UNCHANGED <<pCtx, thread, timers, xtSel, ownsSel, hostText, owed,
                           calls, xt, caller>>

UnregisterCall ==
    \E c \in RegCallers :
        /\ g_contexts' = clipUnregisterContext(g_contexts, c.pCtx, c.widget)
        /\ ev' = [type |-> "clipUnregisterContext", pCtx |-> c.pCtx,
                  widget |-> c.widget]
        /\ UNCHANGED <<pCtx, thread, timers, xtSel, ownsSel, hostText, owed,
                       calls, xt, caller>>

RegNext == RegisterCall \/ UnregisterCall

RegSpec == RegInit /\ [][RegNext]_vars

SlotsOf(reg, widget) == { i \in 1..Len(reg) : reg[i].widget = widget }

(* C30: each widget occupies at most one slot of the table; a register or    *)
(* unregister call repeated for the same context leaves the table as the     *)
(* first call left it; a register call that returns an error leaves the      *)
(* table unchanged.                                                          *)
C30_RegisterIdempotent ==
    /\ \A c \in RegCallers :
         c.widget # NULL => Cardinality(SlotsOf(g_contexts, c.widget)) <= 1
    /\ \A c \in RegCallers :
         /\ clipRegisterContext(
                clipRegisterContext(g_contexts, c.pCtx, c.widget).reg,
                c.pCtx, c.widget).reg
              = clipRegisterContext(g_contexts, c.pCtx, c.widget).reg
         /\ clipUnregisterContext(
                clipUnregisterContext(g_contexts, c.pCtx, c.widget),
                c.pCtx, c.widget)
              = clipUnregisterContext(g_contexts, c.pCtx, c.widget)
         /\ ~RT_SUCCESS(clipRegisterContext(g_contexts, c.pCtx, c.widget).rc)
              => clipRegisterContext(g_contexts, c.pCtx, c.widget).reg = g_contexts

-----------------------------------------------------------------------------
(* clipGetTextFormatFromTargets on its own: every list of up to MaxTargets   *)
(* atoms drawn from the names of the table, TARGETS and an unknown atom.     *)

MaxTargets == 3         \* atoms in a list of targets

TargetAtoms ==
    { XtConvertAndStore(g_aFormats[f].pcszAtom) : f \in 1..Len(g_aFormats) }
        \cup { XtConvertAndStore("TARGETS"), 12288 }

AllTargetLists == UNION { [1..n -> TargetAtoms] : n \in 0..MaxTargets }

TargetsInit ==
    /\ Started(FALSE)
    /\ \E pTargets \in AllTargetLists : ev = [type |-> "targets", pTargets |-> pTargets]

GetTextFormatFromTargets ==
    /\ ev.type = "targets"
    /\ ev' = [type |-> "clipGetTextFormatFromTargets", pTargets |-> ev.pTargets,
              ret |-> clipGetTextFormatFromTargets(ev.pTargets)]
    /\ UNCHANGED <<pCtx, thread, timers, xtSel, ownsSel, hostText, owed, calls>>
    /\ UNCHANGED lifeVars

TargetsNext == GetTextFormatFromTargets

TargetsSpec == TargetsInit /\ [][TargetsNext]_vars

(* The kind of text (TEXT, CTEXT, UTF8) an atom stands for in the table, or  *)
(* INVALID if no entry for Unicode text has that atom.                       *)
TextKind(atom) ==
    LET hits == { f \in 1..Len(g_aFormats) :
                      /\ XtConvertAndStore(g_aFormats[f].pcszAtom) = atom
                      /\ g_aFormats[f].u32VBoxFormat
                             = VBOX_SHARED_CLIPBOARD_FMT_UNICODETEXT }
    IN  IF hits = {} THEN INVALID
        ELSE g_aFormats[CHOOSE f \in hits : TRUE].enmFormat

(* C21: the format returned for a list is the table entry of the earliest    *)
(* atom of the list whose kind is the most preferred kind in the list        *)
(* (UTF8 over CTEXT over TEXT); it is NIL_CLIPX11FORMAT (INVALID) when the   *)
(* list names no recognised text atom; atoms such as TARGETS or unknown ones *)
(* never win.                                                                *)
C21_BestTextFormat ==
    ev.type = "clipGetTextFormatFromTargets"
      => LET l == ev.pTargets
             text == { i \in DOMAIN l : TextKind(l[i]) # INVALID }
         IN  /\ UTF8 > CTEXT /\ CTEXT > TEXT /\ TEXT > INVALID
             /\ text = {} => ev.ret = NIL_CLIPX11FORMAT
             /\ text # {}
                  => \E i \in text :
                       /\ \A j \in text : TextKind(l[j]) <= TextKind(l[i])
                       /\ \A j \in text : j < i => TextKind(l[j]) < TextKind(l[i])
                       /\ ev.ret # NIL_CLIPX11FORMAT
                       /\ XtConvertAndStore(g_aFormats[ev.ret + 1].pcszAtom) = l[i]
                       /\ g_aFormats[ev.ret + 1].enmFormat = TextKind(l[i])

(* C21 witness: of two Utf8 targets behind a plain text one the earlier Utf8 *)
(* target was chosen.                                                        *)
C21_Witness ==
    /\ ev.type = "clipGetTextFormatFromTargets"
    /\ ev.pTargets = << XtConvertAndStore("STRING"),
                        XtConvertAndStore("text/plain;charset=utf-8"),
                        XtConvertAndStore("UTF8_STRING") >>
    /\ ev.ret = 3


-----------------------------------------------------------------------------
(* Claims checked on LifeSpec and LifeFairSpec. *)

(* C25: on a context constructed headless, ClipStartX11, ClipStopX11 and     *)
(* ClipAnnounceFormatToX11 succeed and change nothing, ClipRequestDataFromX11 *)
(* returns VERR_NO_DATA at once, and whatever was called before, the widget  *)
(* owns no selection, no conversion is under way, no timer is queued and no  *)
(* toolkit or upstream call is made.                                         *)
C25_HeadlessNoOp ==
    [][ ~pCtx.fHaveX11 =>
          /\ pCtx' = pCtx
          /\ g_contexts' = g_contexts
          /\ xt' = xt
          /\ thread' = thread
          /\ caller' = caller
          /\ timers' = <<>>
          /\ xtSel' = <<>>
          /\ ~ownsSel'
          /\ calls' = <<>>
          /\ ev'.type \in {"ClipStartX11", "ClipStopX11",
                           "ClipRequestDataFromX11", "ClipAnnounceFormatToX11"}
          /\ ev'.type \in {"ClipStartX11", "ClipStopX11"}
                => ev'.rc = "VINF_SUCCESS"
          /\ ev'.type = "ClipRequestDataFromX11" => ev'.rc = "VERR_NO_DATA" ]_vars

C25_Witness ==
    /\ ~pCtx.fHaveX11
    /\ ev.type = "ClipRequestDataFromX11"
    /\ ev.rc = "VERR_NO_DATA"
    /\ pCtx = ClipConstructX11(TRUE)

(* C27: ClipStopX11 on a context with an X server that a ClipStopX11 has     *)
(* already stopped hands no null application context to the toolkit and      *)
(* writes to no pipe descriptor that is not open.                            *)
C27_StopTwiceUsesNothingDestroyed ==
    [][ ( /\ pCtx.fHaveX11
          /\ ev.type = "ClipStopX11 returns"
          /\ ev.rc = "VINF_SUCCESS"
          /\ ev'.type = "ClipStopX11" )
        => \A k \in DOMAIN calls' :
              /\ calls'[k].fn = "XtAppAddTimeOut"
                    => calls'[k].appContext \in xt.apps
              /\ calls'[k].fn = "write" => calls'[k].fd \in xt.fds ]_vars

(* The slots of the table that hold the context itself. *)
OwnSlots(reg) == { i \in 1..Len(reg) : reg[i].pCtx = SelfCtx }

LoopHandlers ==
    { "vboxClipboardReadX11Worker", "clipNewVBoxFormatsWorker",
      "clipStopEventThreadWorker", "XFixesSelectionNotify",
      "clipConvertX11Targets", "clipConvertX11CB", "clipXtConvertSelectionProc" }

(* ClipStopX11 waits for the thread of a started context. *)
StopWaits ==
    /\ caller = "RTThreadWait"
    /\ thread # NoThread
    /\ pCtx.appContext \in xt.apps

(* ClipStopX11 gave up waiting. *)
StopGaveUp == ev.type = "ClipStopX11 returns" /\ ev.rc = "VERR_TIMEOUT"

(* C26: when ClipStopX11 is called on a started context, then unless it      *)
(* gives up waiting, clipEventThread returns; and while the exit flag is     *)
(* raised the loop runs no timer and no selection callback.                  *)
C26_StopEndsLoop ==
    /\ StopWaits ~> (thread = ThreadReturned \/ StopGaveUp)
    /\ [][ xt.exitFlag => ev'.type \notin LoopHandlers ]_vars

C26_Witness ==
    /\ caller = "RTThreadWait"
    /\ thread = ThreadReturned
    /\ xt.exitFlag
    /\ timers # <<>>
    /\ xtSel # <<>>

(* C31: while the event thread runs, the fields of the context change only   *)
(* in steps of that thread; ClipRequestDataFromX11 and                       *)
(* ClipAnnounceFormatToX11 only add a timer and write to the wakeup pipe;    *)
(* and the widget, the application context and the pipe are not destroyed.   *)
C31_OnlyLoopThreadChangesContext ==
    [][ thread.running =>
          /\ pCtx' # pCtx => ev'.type \in LoopHandlers
          /\ ev'.type \in {"ClipRequestDataFromX11", "ClipAnnounceFormatToX11"}
                => /\ pCtx' = pCtx
                   /\ xtSel' = xtSel
                   /\ ownsSel' = ownsSel
                   /\ g_contexts' = g_contexts
                   /\ xt' = xt
                   /\ \A k \in DOMAIN calls' :
                         calls'[k].fn \in {"XtAppAddTimeOut", "write"}
          /\ xt'.widgets = xt.widgets
          /\ xt'.apps = xt.apps
          /\ xt'.fds = xt.fds ]_vars


(* C37: every pending data request carries the text format whose atom was    *)
(* sent in its conversion, and a reply with a value to a request for        *)
(* Unicode text is decoded by that stored format: it completes with success *)
(* whatever the context's X11TextFormat has become in the meantime.         *)
C37_ReplyDecodedByStoredFormat ==
    /\ \A i \in 1..Len(xtSel) :
          xtSel[i].callback = "clipConvertX11CB"
              => /\ xtSel[i].closure.mTextFormat # INVALID
                 /\ xtSel[i].target
                       = clipAtomForX11Format(xtSel[i].closure.mTextFormat)
    /\ ( /\ ev.type = "clipConvertX11CB"
         /\ ev.pvSrc # NULL
         /\ ev.atomType # "XT_CONVERT_FAIL"
         /\ ev.pReq.mFormat = VBOX_SHARED_CLIPBOARD_FMT_UNICODETEXT )
          => /\ clipRealFormatForX11Format(ev.pReq.mTextFormat) \in {CTEXT, UTF8, TEXT}
             /\ Completions(calls) = << Completion("VINF_SUCCESS", ev.pReq.mReq) >>

(* C37 witness: the reply arrives after the context's text format was reset. *)
C37_Witness ==
    /\ ev.type = "clipConvertX11CB"
    /\ ev.pvSrc # NULL
    /\ ev.atomType = "XA_STRING"
    /\ ev.pReq.mFormat = VBOX_SHARED_CLIPBOARD_FMT_UNICODETEXT
    /\ ev.pReq.mTextFormat # INVALID
    /\ pCtx.X11TextFormat = INVALID
    /\ Completions(calls) = << Completion("VINF_SUCCESS", ev.pReq.mReq) >>


-----------------------------------------------------------------------------
(* The transcoders on their own: the initial states hold one input each, a   *)
(* step applies the function or handler the input is for.                    *)

MaxLen == 3     \* bytes or code units of an input text

(* Bytes of X11 text: NUL, LF, CR, "a", the Latin-1 byte 0xEA (which also    *)
(* leads a Utf-8 sequence of three bytes), and the bytes 0xC3 0xA9 of a      *)
(* Utf-8 sequence of two.                                                    *)
ByteStrings ==
    UNION { [1..n -> { 0, LINEFEED, CARRIAGERETURN, 97, 234, 195, 169 }] :
                n \in 0..MaxLen }

(* Code units of host text: NUL, LF, CR and "h". *)
ConvHostTexts ==
    UNION { [1..n -> { 0, LINEFEED, CARRIAGERETURN, 104 }] : n \in 1..MaxLen }

(* One table entry of each kind of text, and the targets a peer asks for. *)
ConvFormats ==
    { clipFindX11FormatByAtom(clipGetAtom(a)) :
          a \in {"UTF8_STRING", "STRING", "COMPOUND_TEXT"} }
ConvTargets ==
    { clipGetAtom("UTF8_STRING"), clipGetAtom("STRING"),
      clipGetAtom("COMPOUND_TEXT") }

(* The request of the host that is under way when a data reply arrives. *)
ConvReq(format) ==
    [mFormat |-> VBOX_SHARED_CLIPBOARD_FMT_UNICODETEXT, mTextFormat |-> format,
     mReq |-> "reqA"]

(* The state in which vboxClipboardReadX11Worker has sent out the request    *)
(* for the text in the given format.                                         *)
ConvFetching(format) ==
    vboxClipboardReadX11Worker(
        [ctx |-> [StartedCtx EXCEPT !.X11TextFormat = format],
         sel |-> <<>>, own |-> FALSE, calls |-> <<>>],
        [ConvReq(format) EXCEPT !.mTextFormat = INVALID])

(* The state in which clipNewVBoxFormatsWorker has taken the clipboard for   *)
(* the host's Unicode text.                                                  *)
ConvOwning ==
    clipNewVBoxFormatsWorker(
        [ctx |-> StartedCtx, sel |-> <<>>, own |-> FALSE, calls |-> <<>>],
        VBOX_SHARED_CLIPBOARD_FMT_UNICODETEXT, TRUE)

ConvStarted(st) ==
    /\ pCtx = st.ctx
    /\ xtSel = st.sel
    /\ ownsSel = st.own
    /\ calls = <<>>
    /\ thread = [running |-> TRUE]
    /\ timers = <<>>
    /\ hostText = st.own
    /\ owed = FALSE
    /\ g_contexts = [i \in 1..CLIP_MAX_CONTEXTS |->
                        IF i = 1 THEN [widget |-> ShellWidget, pCtx |-> SelfCtx]
                        ELSE FreeSlot]
    /\ xt = StartedXt
    /\ caller = "idle"

ConvInit ==
    \/ \E pcSrc \in ByteStrings, e \in ConvEnvs :
         /\ ConvStarted(ConvFetching(clipFindX11FormatByAtom(clipGetAtom("STRING"))))
         /\ ev = [type |-> "input", fn |-> "clipLatin1ToWinTxt",
                  pcSrc |-> pcSrc, cbSrc |-> Len(pcSrc), env |-> e]
    \/ \E format \in ConvFormats, pvSrc \in ByteStrings, e \in ConvEnvs :
         /\ ConvStarted(ConvFetching(format))
         /\ ev = [type |-> "input", fn |-> "clipConvertX11CB",
                  pvSrc |-> Ptr(pvSrc), env |-> e]
    \/ \E atomTarget \in ConvTargets, pwsz \in ConvHostTexts, rcLib \in LibStatuses :
         /\ ConvStarted(ConvOwning)
         /\ ev = [type |-> "input", fn |-> "clipXtConvertSelectionProc",
                  target |-> atomTarget, pwsz |-> pwsz, rcLib |-> rcLib]

(* What a store outside the allocated block may lead to. *)
OverrunOutcomes == { "returns", "crashes" }

(* clipLatin1ToWinTxt is called. *)
Latin1ToWinTxt ==
    /\ ev.type = "input"
    /\ ev.fn = "clipLatin1ToWinTxt"
    /\ LET res == clipLatin1ToWinTxt(ev.pcSrc, ev.cbSrc, ev.env)
       IN  \E outcome \in (IF res.fOverrun THEN OverrunOutcomes ELSE {"returns"}) :
             ev' = [type |-> "clipLatin1ToWinTxt",
                    pcSrc |-> ev.pcSrc, cbSrc |-> ev.cbSrc, env |-> ev.env,
                    cwcDest |-> clipLatin1ToWinTxtCount(ev.pcSrc, ev.cbSrc) + 1,
                    stored |-> IF RT_SUCCESS(res.rc)
                               THEN clipLatin1ToWinTxtCopy(ev.pcSrc, ev.cbSrc, ev.env)
                               ELSE <<>>,
                    res |-> res, outcome |-> outcome]
    /\ UNCHANGED <<pCtx, thread, timers, xtSel, ownsSel, hostText, owed, calls>>
    /\ UNCHANGED lifeVars

(* The toolkit delivers the bytes as the answer to the data request. *)
ConvDataReply ==
    /\ ev.type = "input"
    /\ ev.fn = "clipConvertX11CB"
    /\ LoopRuns
    /\ xtSel # <<>>
    /\ xtSel[1].callback = "clipConvertX11CB"
    /\ LET pReq == xtSel[1].closure
           res == clipConvertX11CBResult(pReq, "XA_STRING", ev.pvSrc, ev.env)
       IN  \E outcome \in (IF res.fOverrun THEN OverrunOutcomes ELSE {"returns"}) :
             /\ IF outcome = "returns"
                THEN Commit(clipConvertX11CBIn(
                                [Cur EXCEPT !.sel = RemoveAt(xtSel, 1)],
                                pReq, "XA_STRING", ev.pvSrc, ev.env))
                ELSE /\ calls' = <<>>
                     /\ UNCHANGED <<pCtx, xtSel, ownsSel>>
             /\ ev' = [type |-> "clipConvertX11CB", atomType |-> "XA_STRING",
                       pvSrc |-> ev.pvSrc, pReq |-> pReq, env |-> ev.env,
                       res |-> res, outcome |-> outcome]
    /\ UNCHANGED <<thread, timers, hostText, owed>>
    /\ UNCHANGED lifeVars

(* A peer asks for the host's text, which the host hands over. *)
ConvConvertSelection ==
    /\ ev.type = "input"
    /\ ev.fn = "clipXtConvertSelectionProc"
    /\ LoopRuns
    /\ ownsSel
    /\ LET r == clipXtConvertSelectionProc(
                    Cur, clipGetAtom("CLIPBOARD"), ev.target,
                    [rc |-> "VINF_SUCCESS", pv |-> Ptr(ev.pwsz)], TRUE, ev.rcLib)
       IN  /\ Commit(r.st)
           /\ ev' = [type |-> "clipXtConvertSelectionProc",
                     selection |-> clipGetAtom("CLIPBOARD"), target |-> ev.target,
                     pwsz |-> ev.pwsz, rcLib |-> ev.rcLib,
                     ok |-> r.ok, ret |-> r.ret]
    /\ UNCHANGED <<thread, timers, hostText, owed>>
    /\ UNCHANGED lifeVars

ConvNext == Latin1ToWinTxt \/ ConvDataReply \/ ConvConvertSelection

ConvSpec == ConvInit /\ [][ConvNext]_vars


(* The text an X11 value stands for, as code units: the bytes up to the      *)
(* first NUL, decoded as Utf-8 if they are well formed and else byte by      *)
(* byte as the build converts a char.                                        *)
ConvTextOf(src, e) ==
    IF Utf8Decode(src).ok
    THEN Utf8Decode(src).units
    ELSE [i \in 1..strlen(src) |-> CharToUtf16(src[i], e)]

(* A text with CR put before every LF, and with CR put before every LF that  *)
(* does not follow a CR.                                                     *)
ExpandEveryLf(t) ==
    LET Cat[n \in 0..Len(t)] ==
            IF n = 0 THEN <<>>
            ELSE Cat[n - 1] \o (IF t[n] = LINEFEED
                                THEN <<CARRIAGERETURN, LINEFEED>>
                                ELSE <<t[n]>>)
    IN  Cat[Len(t)]
ExpandLoneLf(t) ==
    LET Cat[n \in 0..Len(t)] ==
            IF n = 0 THEN <<>>
            ELSE Cat[n - 1] \o (IF /\ t[n] = LINEFEED
                                   /\ ~(n > 1 /\ t[n - 1] = CARRIAGERETURN)
                                THEN <<CARRIAGERETURN, LINEFEED>>
                                ELSE <<t[n]>>)
    IN  Cat[Len(t)]

(* A data reply with a value was transcoded and the handler returned. *)
ConvTranscoded ==
    /\ ev.type = "clipConvertX11CB"
    /\ ev.outcome = "returns"
    /\ RT_SUCCESS(ev.res.rc)

(* C32: X11 to host transcoding (from Utf-8, compound text and Latin-1)      *)
(* puts a CR before each LF that is not already part of a CR LF pair, leaves *)
(* an existing CR LF pair as it is, and ends the output with one NUL code    *)
(* unit, for every input text.                                               *)
C32_LfExpandedCrLfIntact ==
    ConvTranscoded
        => Deref(ev.res.pvDest)
               = ExpandLoneLf(ConvTextOf(Deref(ev.pvSrc), ev.env)) \o <<0>>

(* C32, amended: the output is the text with a CR put before every LF, also  *)
(* before one that follows a CR, ended by one NUL code unit.                 *)
C32_EveryLfExpanded ==
    ConvTranscoded
        => /\ Deref(ev.res.pvDest)
                 = ExpandEveryLf(ConvTextOf(Deref(ev.pvSrc), ev.env)) \o <<0>>
           /\ ev.res.cbDest = 2 * Len(Deref(ev.res.pvDest))

(* C32 witness: a Latin-1 text with a CR LF pair came out with CR CR LF. *)
C32_Witness ==
    /\ ConvTranscoded
    /\ ev.pvSrc = Ptr(<<234, CARRIAGERETURN, LINEFEED>>)
    /\ clipRealFormatForX11Format(ev.pReq.mTextFormat) = TEXT
    /\ SubSeq(Deref(ev.res.pvDest), 2, 5)
           = <<CARRIAGERETURN, CARRIAGERETURN, LINEFEED, 0>>

(* C33: Latin-1 decoding stores for every input byte other than LF the code  *)
(* unit with the same numeric value, also for bytes from 0x80 on.            *)
C33_Latin1SameValue ==
    (ev.type = "clipLatin1ToWinTxt" /\ RT_SUCCESS(ev.res.rc))
        => ev.stored
               = ExpandEveryLf([i \in 1..ev.cbSrc |-> ev.pcSrc[i]])

(* C34: the text returned to an X11 peer holds no NUL, its length is that    *)
(* of the transcoded text without the terminator, and it is the same for     *)
(* the host's text with and without a terminator at its end.                 *)
C34_ReturnedTextExcludesTerminator ==
    (ev.type = "clipXtConvertSelectionProc" /\ "pwsz" \in DOMAIN ev /\ ev.ok)
        => LET n == Len(ev.pwsz)
               other == IF ev.pwsz[n] = 0
                        THEN SubSeq(ev.pwsz, 1, n - 1)
                        ELSE ev.pwsz \o <<0>>
           IN  /\ \A k \in DOMAIN ev.ret.value : ev.ret.value[k] # 0
               /\ Len(ev.ret.value) = strlen(vboxClipboardUtf16WinToLin(ev.pwsz) \o <<0>>)
               /\ other # <<>>
                    => clipXtConvertSelectionProc(
                           ConvOwning, clipGetAtom("CLIPBOARD"), ev.target,
                           [rc |-> "VINF_SUCCESS", pv |-> Ptr(other)],
                           TRUE, ev.rcLib).ret = ev.ret

(* C34 witness: the host's text "h" with its terminator was returned as the  *)
(* one byte "h".                                                             *)
C34_Witness ==
    /\ ev.type = "clipXtConvertSelectionProc"
    /\ "pwsz" \in DOMAIN ev
    /\ ev.ok
    /\ ev.pwsz = <<104, 0>>
    /\ ev.ret.value = <<104>>

(* C35: a data reply whose value has no bytes is transcoded to one NUL code  *)
(* unit, two bytes, on the compound text and the Utf-8 path, and so is an    *)
(* input of no bytes by clipLatin1ToWinTxt; the request completes with       *)
(* VINF_SUCCESS (the allocator handing back memory).                         *)
C35_EmptyValueIsOneNul ==
    /\ ( /\ ev.type = "clipConvertX11CB"
         /\ "res" \in DOMAIN ev
         /\ ev.pvSrc = Ptr(<<>>)
         /\ ev.env.fAlloc )
          => /\ ev.res = [rc |-> "VINF_SUCCESS", pvDest |-> Ptr(<<0>>),
                          cbDest |-> 2, fOverrun |-> FALSE]
             /\ Completions(calls) = << Completion("VINF_SUCCESS", ev.pReq.mReq) >>
    /\ (ev.type = "clipLatin1ToWinTxt" /\ ev.cbSrc = 0 /\ ev.env.fAlloc)
          => ev.res = [rc |-> "VINF_SUCCESS", pvDest |-> Ptr(<<0>>),
                       cbDest |-> 2, fOverrun |-> FALSE]

(* C35 witness: an empty value arrived for a request sent as compound text. *)
C35_Witness ==
    /\ ev.type = "clipConvertX11CB"
    /\ "res" \in DOMAIN ev
    /\ ev.pvSrc = Ptr(<<>>)
    /\ clipRealFormatForX11Format(ev.pReq.mTextFormat) = CTEXT
    /\ ev.res.pvDest = Ptr(<<0>>)
    /\ Completions(calls) = << Completion("VINF_SUCCESS", ev.pReq.mReq) >>

(* C38: clipLatin1ToWinTxt stores no more code units than it allocated, for  *)
(* every input, and the size it reports is that of the block.                *)
C38_Latin1StaysInBuffer ==
    (ev.type = "clipLatin1ToWinTxt" /\ RT_SUCCESS(ev.res.rc))
        => /\ Len(ev.stored) <= ev.cwcDest
           /\ ev.res.cbDest = 2 * ev.cwcDest


-----------------------------------------------------------------------------
(* The loop of clipEventThread step by step: the X events that wait in the   *)
(* queue of the display are kept in xt.events, each with the number of       *)
(* times clipPeekEventAndDoXFixesHandling has seen it at the head of the     *)
(* queue; thread.pc tells which of the two calls of the loop body is next    *)
(* and thread.fPeeked whether XtAppPeekEvent handed back an X event.         *)
(* Selection replies are left out: requests sent stay outstanding.           *)

MaxEvents == 2      \* X events that may wait in the queue
MaxPeeked == 2      \* the count of peeks stops here ("more than once")

LoopInit ==
    /\ \E grab \in BOOLEAN :
         LET st0 == [ctx |-> StartedCtx, sel |-> <<>>, own |-> FALSE, calls |-> <<>>]
             st == IF grab THEN clipQueryX11CBFormats(st0) ELSE st0
         IN  /\ pCtx = st.ctx
             /\ xtSel = st.sel
             /\ ownsSel = st.own
             /\ calls = st.calls
    /\ thread = [running |-> TRUE, pc |-> "peek", fPeeked |-> FALSE]
    /\ timers = <<>>
    /\ hostText = FALSE
    /\ owed = FALSE
    /\ g_contexts = [i \in 1..CLIP_MAX_CONTEXTS |->
                        IF i = 1 THEN [widget |-> ShellWidget, pCtx |-> SelfCtx]
                        ELSE FreeSlot]
    /\ xt = [exitFlag |-> StartedXt.exitFlag, widgets |-> StartedXt.widgets,
             apps |-> StartedXt.apps, fds |-> StartedXt.fds, events |-> <<>>]
    /\ caller = "idle"
    /\ ev = [type |-> "clipEventThread"]

(* The X server puts an XFixes selection notify event into the queue; the    *)
(* widget owns the selection no longer unless the event names it as owner.   *)
XFixesEventArrives ==
    /\ Len(xt.events) < MaxEvents
    /\ \E e \in FixesEvents :
         /\ xt' = [xt EXCEPT !.events = Append(@, [subtype |-> e.subtype,
                                                  owner |-> e.owner,
                                                  cPeeked |-> 0])]
         /\ ownsSel' = (ownsSel /\ e.owner = WidgetWindow)
         /\ ev' = [type |-> "XFixesSelectionNotify arrives",
                   subtype |-> e.subtype, owner |-> e.owner]
    /\ calls' = <<>>
    /\ UNCHANGED <<pCtx, thread, timers, xtSel, hostText, owed, g_contexts, caller>>

(* The queue after XtAppPeekEvent: the event stays where it is. *)
LoopPeeked(events) ==
    [events EXCEPT ![1].cPeeked = IF @ < MaxPeeked THEN @ + 1 ELSE @]

(* clipPeekEventAndDoXFixesHandling: XtAppPeekEvent hands back the X event   *)
(* at the head of the queue, or nothing if there is none and a timer (with   *)
(* its byte in the wakeup pipe) waits; with neither it blocks.               *)
LoopPeek ==
    /\ LoopRuns
    /\ thread.pc = "peek"
    /\ IF xt.events # <<>>
       THEN LET e == Head(xt.events)
                r == clipPeekEventAndDoXFixesHandling(Cur, e.subtype, e.owner)
            IN  /\ Commit(r)
                /\ xt' = [xt EXCEPT !.events = LoopPeeked(@)]
                /\ thread' = [thread EXCEPT !.pc = "process", !.fPeeked = TRUE]
                /\ ev' = [type |-> "clipPeekEventAndDoXFixesHandling",
                          event |-> Ptr(e), fChanged |-> (r # Cur)]
       ELSE /\ timers # <<>>
            /\ Commit(Cur)
            /\ xt' = xt
            /\ thread' = [thread EXCEPT !.pc = "process", !.fPeeked = FALSE]
            /\ ev' = [type |-> "clipPeekEventAndDoXFixesHandling",
                      event |-> NULL, fChanged |-> FALSE]
    /\ UNCHANGED <<timers, hostText, owed, g_contexts, caller>>

(* XtAppProcessEvent(XtIMAll) runs the oldest timer. *)
LoopProcessTimer ==
    /\ LoopRuns
    /\ thread.pc = "process"
    /\ timers # <<>>
    /\ Head(timers).proc \in {"vboxClipboardReadX11Worker", "clipNewVBoxFormatsWorker"}
    /\ IF Head(timers).proc = "vboxClipboardReadX11Worker"
       THEN /\ Commit(vboxClipboardReadX11Worker(Cur, Head(timers).data))
            /\ UNCHANGED hostText
       ELSE /\ \E fOwn \in BOOLEAN :
                 Commit(clipNewVBoxFormatsWorker(Cur, Head(timers).data, fOwn))
            /\ hostText' = (BitAnd(Head(timers).data,
                                   VBOX_SHARED_CLIPBOARD_FMT_UNICODETEXT) # 0)
    /\ timers' = Tail(timers)
    /\ thread' = [thread EXCEPT !.pc = "peek", !.fPeeked = FALSE]
    /\ ev' = [type |-> "XtAppProcessEvent", source |-> "timer",
              proc |-> Head(timers).proc]
    /\ UNCHANGED <<owed, g_contexts, xt, caller>>

(* XtAppProcessEvent(XtIMAll) takes the X event that was peeked off the      *)
(* queue; the toolkit has no handler for an XFixes event and drops it.       *)
LoopProcessXEvent ==
    /\ LoopRuns
    /\ thread.pc = "process"
    /\ thread.fPeeked
    /\ xt.events # <<>>
    /\ xt' = [xt EXCEPT !.events = Tail(@)]
    /\ thread' = [thread EXCEPT !.pc = "peek", !.fPeeked = FALSE]
    /\ ev' = [type |-> "XtAppProcessEvent", source |-> "XEvent",
              event |-> Head(xt.events)]
    /\ calls' = <<>>
    /\ UNCHANGED <<pCtx, timers, xtSel, ownsSel, hostText, owed, g_contexts, caller>>

LoopNext ==
    \/ ClipRequestDataFromX11
    \/ ClipAnnounceFormatToX11
    \/ XFixesEventArrives
    \/ LoopPeek
    \/ LoopProcessTimer
    \/ LoopProcessXEvent

LoopSpec == LoopInit /\ [][LoopNext]_vars

(* C36: a peeked XFixes event of a foreign owner is handled in the same      *)
(* iteration in which XtAppProcessEvent takes it off the queue, so it is     *)
(* handled exactly once and the next peek does not see it again, also while  *)
(* timers wait; an event that names the widget's own window is not handled.  *)
C36_FixesEventDispatchedOnce ==
    /\ \A i \in DOMAIN xt.events :
          xt.events[i].owner # WidgetWindow => xt.events[i].cPeeked <= 1
    /\ ( /\ ev.type = "XtAppProcessEvent"
         /\ ev.source = "XEvent"
         /\ ev.event.owner # WidgetWindow )
          => ev.event.cPeeked = 1
    /\ ( /\ ev.type = "clipPeekEventAndDoXFixesHandling"
         /\ ev.event # NULL
         /\ Deref(ev.event).owner = WidgetWindow )
          => ~ev.fChanged

====
